---- MODULE Spec2Model ----
(***************************************************************************)
(* Model of feedlot's builder synthesis: RawTemplate.createBuilders and    *)
(* the per-kind create functions of app/builders.go, RawTemplate.          *)
(* updateBuilders, and the helpers they call.  A settings entry           *)
(* "key = value" is the record [k |-> key, v |-> value]; an entry without  *)
(* a value ("key=" or "key") has v = "".  An emitted settings map is a     *)
(* function from keys to [typ, v].                                         *)
(***************************************************************************)
EXTENDS Integers, Sequences, FiniteSets, TLC

\* r is the RawTemplate, env the file system and network it reads; pc, ndx,
\* bldrs and err are createBuilders' position, loop index and results; upd
\* and hist record the last update and each loop iteration; run is the
\* state of one run of the build command.
VARIABLES r, env, pc, ndx, bldrs, err, upd, hist, run

vars == <<r, env, pc, ndx, bldrs, err, upd, hist, run>>

\* Bounds of the model: the length of BuilderIDs, the entries missing from
\* a component's settings, the length of the merged settings sequences.
MaxIDs == 2
MaxDrop == 1
MaxLen == 2

----------------------------------------------------------------------------
\* Generic helpers.

Put(m, k, v) == [x \in (DOMAIN m) \cup {k} |-> IF x = k THEN v ELSE m[x]]

EmptyMap == [x \in {} |-> x]

Has(m, k) == k \in DOMAIN m

StrVal(v) == [typ |-> "string", v |-> v]

BoolVal(b) == [typ |-> "bool", v |-> b]

IntVal(v) == [typ |-> "int", v |-> v]

ArrVal(a) == [typ |-> "array", v |-> a]

E(k, v) == [k |-> k, v |-> v]

RECURSIVE SeqOfSet(_)
SeqOfSet(S) == IF S = {} THEN <<>>
               ELSE LET x == CHOOSE y \in S : TRUE IN <<x>> \o SeqOfSet(S \ {x})

----------------------------------------------------------------------------
\* Builder kinds.

builders == <<"unsupported builder", "common", "custom", "amazon-chroot",
              "amazon-ebs", "amazon-instance", "digitalocean", "docker",
              "googlecompute", "null", "openstack", "parallels-iso",
              "parallels-pvm", "qemu", "virtualbox-iso", "virtualbox-ovf",
              "vmware-iso", "vmware-vmx">>

UnsupportedBuilder == 1
Common == 2
Custom == 3
AmazonChroot == 4
AmazonEBS == 5
AmazonInstance == 6
DigitalOcean == 7
Docker == 8
GoogleCompute == 9
Null == 10
OpenStack == 11
ParallelsISO == 12
ParallelsPVM == 13
QEMU == 14
VirtualBoxISO == 15
VirtualBoxOVF == 16
VMWareISO == 17
VMWareVMX == 18

BuilderString(b) == builders[b]

\* strings.ToLower on the Type strings the model generates.
ToLower(s) == CASE s = "VirtualBox-ISO" -> "virtualbox-iso"
                [] s = "QEMU" -> "qemu"
                [] s = "Common" -> "common"
                [] OTHER -> s

ParseBuilder(s) ==
    LET l == ToLower(s) IN
    IF \E b \in 2..18 : builders[b] = l
    THEN CHOOSE b \in 2..18 : builders[b] = l
    ELSE UnsupportedBuilder

----------------------------------------------------------------------------
\* Errors.

NoErr == [typ |-> "nil"]

ErrBuilderNotFound == [typ |-> "ErrBuilderNotFound"]

ErrNoCommands == [typ |-> "ErrNoCommands"]

BuilderErr(id, b, e) == [typ |-> "BuilderErr", id |-> id, Builder |-> b, Err |-> e]

RequiredSettingErr(key) == [typ |-> "RequiredSettingErr", Key |-> key]

SettingErr(k, v, e) == [typ |-> "SettingErr", Key |-> k, Value |-> v, Err |-> e]

InvalidComponentErr(cTyp, s) == [typ |-> "InvalidComponentErr", cTyp |-> cTyp, s |-> s]

UnsupportedDistroErr(d) == [typ |-> "UnsupportedDistroErr", s |-> d]

PlainErr(msg) == [typ |-> "error", msg |-> msg]

\* The innermost cause of an error: BuilderErr wraps one level.
Cause(e) == IF e.typ = "BuilderErr" THEN e.Err ELSE e

----------------------------------------------------------------------------
\* Settings primitives.

parseVar(s) == <<s.k, s.v>>

Keys(sl) == {sl[i].k : i \in 1..Len(sl)}

\* The value a settings sequence associates with k: the last occurrence wins.
Lookup(sl, k) ==
    LET idx == {i \in 1..Len(sl) : sl[i].k = k} IN
    sl[CHOOSE i \in idx : \A j \in idx : j <= i].v

keyIndexInVarSlice(key, sl) ==
    LET idx == {i \in 1..Len(sl) : sl[i].k = key} IN
    IF idx = {} THEN 0 ELSE CHOOSE i \in idx : \A j \in idx : i <= j

RemoveKey(sl, key) == SelectSeq(sl, LAMBDA e : e.k # key)

\* One entry of the new sequence applied to the sequence merged so far, i
\* being the index of its key there (0 when absent): an empty value removes
\* the key, a new key is appended and a known one is replaced in place.
MergeEntry(merged, e, i) ==
    IF e.v = "" /\ e.k # "guest_os_type" THEN RemoveKey(merged, e.k)
    ELSE IF i = 0 THEN Append(merged, e)
    ELSE [merged EXCEPT ![i] = e]

RECURSIVE MergeFrom(_, _, _)
MergeFrom(merged, s2, i) ==
    IF i > Len(s2) THEN merged
    ELSE IF keyIndexInVarSlice(s2[i].k, merged) = 0
         THEN MergeFrom(MergeEntry(merged, s2[i], 0), s2, i + 1)
    ELSE MergeFrom(MergeEntry(merged, s2[i], keyIndexInVarSlice(s2[i].k, merged)), s2, i + 1)

mergeSettingsSlices(s1, s2) == MergeFrom(s1, s2, 1)

replaceVariables(rr, v) == IF v \in DOMAIN rr.VarVals THEN rr.VarVals[v] ELSE v

----------------------------------------------------------------------------
\* Value conversions, on the values the model generates.

IntStrings == {"20000", "8080", "9000"}

\* strconv.Atoi: ok is FALSE for a value that is not a decimal integer.
Atoi(v) ==
    [ok |-> v \in IntStrings,
     i |-> CASE v = "20000" -> 20000 [] v = "8080" -> 8080 [] v = "9000" -> 9000
             [] OTHER -> 0]

\* Variant of ParseBool that reads only the lower-case true as true.
ParseBoolMutant(v) == v = "true"

\* strconv.ParseBool with the error dropped: false unless the value parses as
\* true.
ParseBool(v) == v \in {"1", "t", "T", "TRUE", "true", "True"}

\* strings.Split(s, ".")
DotParts(s) == CASE s = "boot.command" -> <<"boot", "command">>
                 [] s = "shutdown.command" -> <<"shutdown", "command">>
                 [] s = "empty.command" -> <<"empty", "command">>
                 [] s = ".command" -> <<"", "command">>
                 [] s = "a..command" -> <<"a", "", "command">>
                 [] s = "run.mycommand" -> <<"run", "mycommand">>
                 [] s = "boot.command.bak" -> <<"boot", "command", "bak">>
                 [] OTHER -> <<s>>

\* strings.HasSuffix(part, "command")
HasSuffixCommand(part) == part \in {"command", "mycommand"}

stringIsCommandFilename(s) ==
    LET parts == DotParts(s) IN
    IF Len(parts) < 2 THEN FALSE
    ELSE IF parts[Len(parts) - 1] = "" THEN FALSE
    ELSE HasSuffixCommand(parts[Len(parts)])

----------------------------------------------------------------------------
\* Paths are sequences of segments; a directory form ends in the segment "/".

Seg(s) == IF s = "" THEN <<>> ELSE <<s>>

buildOutPath(rr, component, path) ==
    <<rr.TemplateOutputDir>>
        \o (IF rr.IncludeComponentString THEN Seg(component) ELSE <<>>)
        \o Seg(path)

buildTemplateResourcePath(rr, component, path, isDir) ==
    LET p == (IF rr.IncludeComponentString THEN Seg(component) ELSE <<>>) \o Seg(path)
    IN IF isDir /\ p # <<>> THEN p \o <<"/">> ELSE p

\* The forms in which a release names a directory: the release, the release
\* without its dots and its major part.
ReleaseForms(release) ==
    CASE release = "14.04" -> <<"14.04", "1404", "14">>
      [] release = "7.8" -> <<"7.8", "78", "7">>
      [] release = "7.1" -> <<"7.1", "71", "7">>
      [] OTHER -> <<release>>

\* The forms in which a component names a directory: the component and its
\* part before the first dash.
ComponentForms(component) ==
    CASE component \in {"amazon-chroot", "amazon-ebs", "amazon-instance"} -> <<component, "amazon">>
      [] component \in {"parallels-iso", "parallels-pvm"} -> <<component, "parallels">>
      [] component \in {"virtualbox-iso", "virtualbox-ovf"} -> <<component, "virtualbox">>
      [] component \in {"vmware-iso", "vmware-vmx"} -> <<component, "vmware">>
      [] component \in {"chef-solo", "chef-client"} -> <<component, "chef">>
      [] component = "salt-masterless" -> <<component, "salt">>
      [] OTHER -> <<component>>

\* A place the search looks in: its path, its layer among the eleven, and
\* the form of the release and of the component it is made with (0 when the
\* layer has none, 1 for the given form).
Place(path, layer, rel, comp) ==
    [path |-> path, layer |-> layer, rel |-> rel, comp |-> comp]

\* The m-th place under the ri-th form of the release: the build name, the
\* forms of the component, the architecture, the release directory itself.
ReleasePlace(s, d, a, b, rels, comps, path, ri, m) ==
    IF m = 0 THEN Place(s \o d \o Seg(rels[ri]) \o b \o path, 1, ri, 0)
    ELSE IF m <= Len(comps)
         THEN Place(s \o d \o Seg(rels[ri]) \o Seg(comps[m]) \o path, 2, ri, m)
    ELSE IF m = Len(comps) + 1
         THEN Place(s \o d \o Seg(rels[ri]) \o a \o path, 3, ri, 0)
    ELSE Place(s \o d \o Seg(rels[ri]) \o path, 4, ri, 0)

\* Every place of the search under the source directory s and the distro
\* directory d: each of the eleven layers with every form of the release and
\* of the component it names.  The sequence only lists the places; the order
\* in which places of different forms are tried is that of Precedes.
Layers(s, d, a, b, rels, comps, path) ==
    [k \in 1..(Len(rels) * (Len(comps) + 3)) |->
        ReleasePlace(s, d, a, b, rels, comps, path,
                     ((k - 1) \div (Len(comps) + 3)) + 1, (k - 1) % (Len(comps) + 3))]
       \o << Place(s \o d \o a \o path, 5, 0, 0),
             Place(s \o d \o b \o path, 6, 0, 0) >>
       \o [k \in 1..Len(comps) |-> Place(s \o d \o Seg(comps[k]) \o path, 7, 0, k)]
       \o << Place(s \o d \o path, 8, 0, 0) >>
       \o [k \in 1..Len(comps) |-> Place(s \o Seg(comps[k]) \o path, 9, 0, k)]
       \o << Place(s \o b \o path, 10, 0, 0),
             Place(s \o path, 11, 0, 0) >>

\* The places findSource looks in.
Candidates(rr, path, component) ==
    Layers(<<rr.SourceDir>>, Seg(rr.Distro), Seg(rr.Arch), Seg(rr.BuildName),
           ReleaseForms(rr.Release), ComponentForms(component), path)

\* What is fixed about the order of the search: place x is tried before place
\* y when x is of an earlier layer than y, is made with the given form of the
\* component or with none, and the two are not made with different forms of
\* the release; and a place made with the given form of the component is
\* tried before the same place made with its stripped form.  Places that
\* neither of the two orders are tried in an order that is not fixed.
Precedes(x, y) ==
    \/ /\ x.comp <= 1
       /\ x.layer < y.layer
       /\ (x.rel = 0 \/ y.rel = 0 \/ x.rel = y.rel)
    \/ /\ x.layer = y.layer
       /\ x.rel = y.rel
       /\ x.comp = 1
       /\ y.comp > 1

\* The places that exist in the file system.
Existing(cands, fs) == {i \in 1..Len(cands) : cands[i].path \in fs}

\* Of the places in found, those no other of them is tried before.
EarliestOf(cands, found) ==
    {i \in found : \A j \in found : ~Precedes(cands[j], cands[i])}

\* Of the places in found, those no other of them is tried after.
LatestOf(cands, found) ==
    {i \in found : \A j \in found : ~Precedes(cands[i], cands[j])}

Earliest(cands, fs) == EarliestOf(cands, Existing(cands, fs))

Latest(cands, fs) == LatestOf(cands, Existing(cands, fs))

\* The n-th smallest member of a set of numbers.
NthOf(S, n) == CHOOSE i \in S : Cardinality({j \in S : j < i}) = n - 1

\* The place of first that pick chooses, or os.ErrNotExist when there is none.
PickOf(cands, first, tail, pick) ==
    IF first = {} THEN [src |-> <<>>, err |-> PlainErr("file does not exist")]
    ELSE [src |-> cands[NthOf(first, (pick % Cardinality(first)) + 1)].path \o tail,
          err |-> NoErr]

\* One of the last places that exist is returned instead of one of the first.
FirstExistingMutant(cands, fs, tail, pick) ==
    PickOf(cands, Latest(cands, fs), tail, pick)

\* The first place that exists in the file system, or os.ErrNotExist.  Where
\* the order of the search is not fixed, pick decides which of the earliest
\* existing places is met first.
FirstExisting(cands, fs, tail, pick) ==
    PickOf(cands, Earliest(cands, fs), tail, pick)

\* findSource returns [src, err]; path is a sequence of segments.
findSourcePath(rr, e, path, component, isDir) ==
    IF path = <<>> THEN [src |-> <<>>, err |-> PlainErr("find source: empty path")]
    ELSE IF rr.IsExample
         THEN [src |-> Seg(component) \o path \o (IF isDir THEN <<"/">> ELSE <<>>),
               err |-> NoErr]
    ELSE FirstExisting(Candidates(rr, path, component), e.fs,
                       IF isDir THEN <<"/">> ELSE <<>>, e.search)

findSource(rr, e, p, component, isDir) == findSourcePath(rr, e, Seg(p), component, isDir)

\* The lines of a command file that was found.
LinesOf(f, e) ==
    IF f.err # NoErr THEN [cmds |-> <<>>, err |-> f.err]
    ELSE IF f.src \notin DOMAIN e.lines
         THEN [cmds |-> <<>>, err |-> PlainErr("open: no such file")]
    ELSE [cmds |-> e.lines[f.src], err |-> NoErr]

\* commandsFromFile returns [cmds, err]: the lines of commands/<name>.
commandsFromFile(rr, e, name, component) ==
    IF name = "" THEN [cmds |-> <<>>, err |-> PlainErr("find command file: empty filename")]
    ELSE LinesOf(findSourcePath(rr, e, <<"commands", name>>, component, FALSE), e)

\* Variant of commandFromSlice that does not stop at the first line without
\* a trailing backslash.
commandFromSliceMutant(lines) ==
    LET RECURSIVE Join(_, _)
        Join(i, cmd) ==
            IF i > Len(lines) THEN cmd
            ELSE Join(i + 1, cmd \o Seg(lines[i].body))
    IN IF Len(lines) = 0 THEN <<>>
       ELSE IF Len(lines) = 1
            THEN Seg(lines[1].body) \o (IF lines[1].cont THEN <<"\\">> ELSE <<>>)
       ELSE Join(1, <<>>)

\* strings.TrimSpace and the trailing-backslash test on the lines the model
\* generates: a line is [body, cont], cont TRUE when it ends in a backslash;
\* a command is the sequence of the bodies joined, an empty body adding
\* nothing.
commandFromSlice(lines) ==
    LET RECURSIVE Join(_, _)
        Join(i, cmd) ==
            IF i > Len(lines) THEN cmd
            ELSE IF ~lines[i].cont THEN cmd \o Seg(lines[i].body)
            ELSE Join(i + 1, cmd \o Seg(lines[i].body))
    IN IF Len(lines) = 0 THEN <<>>
       ELSE IF Len(lines) = 1
            THEN Seg(lines[1].body) \o (IF lines[1].cont THEN <<"\\">> ELSE <<>>)
       ELSE Join(1, <<>>)

----------------------------------------------------------------------------
\* ISO discovery.

NilISO == [Distro |-> "", Arch |-> "", Release |-> "", ReleaseFull |-> "",
           Image |-> "", BaseURL |-> "", Name |-> <<>>, isoURL |-> <<>>,
           Checksum |-> "", ChecksumType |-> ""]

SupportedDistros == {"centos", "debian", "ubuntu"}

\* getStringFromURL: a transport error when the network is down.
NetErr == PlainErr("http get failed")

centosGetOSType(arch, buildType) ==
    CASE buildType \in {"vmware-iso", "vmware-vmx"} /\ arch = "x86_64" -> [s |-> "centos-64", err |-> NoErr]
      [] buildType \in {"vmware-iso", "vmware-vmx"} /\ arch = "x386" -> [s |-> "centos-32", err |-> NoErr]
      [] buildType \in {"virtualbox-iso", "virtualbox-ovf"} /\ arch = "x86_64" -> [s |-> "RedHat_64", err |-> NoErr]
      [] buildType \in {"virtualbox-iso", "virtualbox-ovf"} /\ arch = "x386" -> [s |-> "RedHat_32", err |-> NoErr]
      [] OTHER -> [s |-> "", err |-> PlainErr("does not support the builder")]

debianGetOSType(arch, buildType) ==
    CASE buildType \in {"vmware-iso", "vmware-vmx"} /\ arch = "amd64" -> [s |-> "debian-64", err |-> NoErr]
      [] buildType \in {"vmware-iso", "vmware-vmx"} /\ arch = "i386" -> [s |-> "debian-32", err |-> NoErr]
      [] buildType \in {"virtualbox-iso", "vmware-ovf"} /\ arch = "amd64" -> [s |-> "Debian_64", err |-> NoErr]
      [] buildType \in {"virtualbox-iso", "vmware-ovf"} /\ arch = "i386" -> [s |-> "Debian_32", err |-> NoErr]
      [] OTHER -> [s |-> "", err |-> PlainErr("does not support the builder")]

ubuntuGetOSType(arch, buildType) ==
    CASE buildType \in {"vmware-iso", "vmware-vmx"} /\ arch = "amd64" -> [s |-> "ubuntu-64", err |-> NoErr]
      [] buildType \in {"vmware-iso", "vmware-vmx"} /\ arch = "i386" -> [s |-> "ubuntu-32", err |-> NoErr]
      [] buildType \in {"virtualbox-iso", "vmware-ovf"} /\ arch = "amd64" -> [s |-> "Ubuntu_64", err |-> NoErr]
      [] buildType \in {"virtualbox-iso", "vmware-ovf"} /\ arch = "i386" -> [s |-> "Ubuntu_32", err |-> NoErr]
      [] OTHER -> [s |-> "", err |-> PlainErr("does not support the builder")]

getOSType(distro, arch, buildType) ==
    CASE distro = "centos" -> centosGetOSType(arch, buildType)
      [] distro = "debian" -> debianGetOSType(arch, buildType)
      [] OTHER -> ubuntuGetOSType(arch, buildType)

\* strings.Split(c.Release, "."): TRUE when the release has a minor part.
HasMinor(release) == release \in {"7.1", "14.04", "7.8"}

\* strings.Split(c.Release, ".")[0] on the releases the model generates.
Major(release) ==
    CASE release = "14.04" -> "14"
      [] release \in {"7.1", "7.8"} -> "7"
      [] OTHER -> release

\* A run-time panic: the call does not return.
Panic(msg) == [typ |-> "panic", msg |-> msg]

\* The hrefs of the redirect page that name the architecture.
MirrorURLs(e) == IF e.page = "empty" THEN <<>> ELSE e.mirrors

\* centOS.randomISOURL returns [url, err]; e.pick is the generator's draw,
\* reduced by rand.Intn to the range below len(isoURLs)-1.
randomISOURL(c, e) ==
    IF e.net = "down" THEN [url |-> <<>>, err |-> NetErr]
    ELSE IF Len(MirrorURLs(e)) < 1
         THEN [url |-> <<>>, err |-> PlainErr("no valid iso URLs were found")]
    ELSE IF Len(MirrorURLs(e)) - 1 <= 0
         THEN [url |-> <<>>, err |-> Panic("invalid argument to Intn")]
    ELSE [url |-> <<MirrorURLs(e)[(e.pick % (Len(MirrorURLs(e)) - 1)) + 1]>> \o c.Name,
          err |-> NoErr]

\* centOS.setReleaseInfo and setISOName applied: a release with a minor part
\* is the full release, otherwise the mirror list gives it.
centosNamed(c, e) ==
    [c EXCEPT !.ReleaseFull = IF HasMinor(c.Release) THEN c.Release ELSE e.current,
              !.Release = Major(c.Release),
              !.Name = <<"CentOS", IF HasMinor(c.Release) THEN c.Release ELSE e.current,
                         c.Arch, c.Image, ".iso">>]

\* centOS.setISOURL applied to the named release c, u the random URL.
centosLocated(c, u) ==
    [c EXCEPT !.isoURL = IF c.BaseURL # ""
                         THEN <<c.BaseURL, c.ReleaseFull, "isos", c.Arch>> \o c.Name
                         ELSE u.url]

\* The image a checksum page lists: the current release of the distro for
\* its usual architecture and image.
ListedName(distro, e) ==
    CASE distro = "centos" -> <<"CentOS", e.current, "x86_64", "server", ".iso">>
      [] distro = "debian" -> <<"debian", e.stable, "amd64", "server", ".iso">>
      [] OTHER -> <<"ubuntu", e.lts, "server", "amd64", ".iso">>

\* The image names found in the checksum page e.page: "ok" and "first" list
\* the image (the latter at offset 0 of the page), "point" lists it under
\* the point release of its release only, "other" lists another image,
\* "noparse" an image whose name has no dashes, "unlisted" and "empty" none.
PageNames(distro, e) ==
    CASE e.page \in {"ok", "first"} -> {ListedName(distro, e)}
      [] e.page = "point" -> {[ListedName(distro, e) EXCEPT ![2] = e.point]}
      [] e.page = "other" -> {<<"xubuntu", "13.10", "desktop", "i386", ".iso">>}
      [] e.page = "noparse" -> {<<"image", ".iso">>}
      [] OTHER -> {}

\* strings.Split(page[:strings.Index(page, ".iso")], "-")[1]: the release
\* of the first image the page lists.
PageRelease(distro, e) ==
    CASE e.page = "point" -> e.point
      [] e.page = "other" -> "13.10"
      [] OTHER -> ListedName(distro, e)[2]

\* centOS.setISOChecksum of the located release c: the checksum page is
\* fetched and findChecksum takes what precedes the name on its line.
centosSetISOChecksum(c, e) ==
    IF c.ChecksumType = "" THEN [rel |-> c, err |-> PlainErr("Checksum Type not set")]
    ELSE IF e.net = "down" THEN [rel |-> c, err |-> NetErr]
    ELSE IF e.page = "empty"
         THEN [rel |-> c, err |-> PlainErr("page to parse was empty")]
    ELSE IF c.Name \notin PageNames("centos", e)
         THEN [rel |-> c, err |-> PlainErr("unable to find ISO information")]
    ELSE [rel |-> [c EXCEPT !.Checksum = IF e.page = "first" THEN "" ELSE e.checksum],
          err |-> NoErr]

\* Each SetISOInfo returns [rel, err]: rel is the release object as the call
\* leaves it, whether it fails or not.
centosSetISOInfo(c, e) ==
    IF c.Arch = "" THEN [rel |-> c, err |-> PlainErr("arch was empty")]
    ELSE IF c.Release = "" THEN [rel |-> c, err |-> PlainErr("release was empty")]
    ELSE IF ~HasMinor(c.Release) /\ e.net = "down" THEN [rel |-> c, err |-> NetErr]
    ELSE IF ~HasMinor(c.Release) /\ e.page = "empty"
         THEN [rel |-> c, err |-> Panic("index out of range")]
    ELSE IF c.BaseURL = "" /\ randomISOURL(centosNamed(c, e), e).err # NoErr
         THEN [rel |-> centosNamed(c, e), err |-> randomISOURL(centosNamed(c, e), e).err]
    ELSE centosSetISOChecksum(centosLocated(centosNamed(c, e),
                                            randomISOURL(centosNamed(c, e), e)), e)

\* The characters of the releases and hrefs the model generates.
Chars(str) ==
    CASE str = "" -> <<>>
      [] str = "7" -> <<"7">>
      [] str = "7.1" -> <<"7", ".", "1">>
      [] str = "7.8" -> <<"7", ".", "8">>
      [] str = "14.04" -> <<"1", "4", ".", "0", "4">>
      [] str = "7.8/" -> <<"7", ".", "8", "/">>
      [] str = "7.8.0/" -> <<"7", ".", "8", ".", "0", "/">>
      [] str = "7.8.10/" -> <<"7", ".", "8", ".", "1", "0", "/">>

\* The string of the characters a five-character cut of those hrefs gives.
StringOf(cs) ==
    CASE cs = <<"7", ".", "8", ".", "0">> -> "7.8.0"
      [] cs = <<"7", ".", "8", ".", "1">> -> "7.8.1"

\* strings.Index(page, `a href="` + d.Release) >= 0 on the page of the base
\* URL, whose first href is e.index: the release starts the href.
ListsRelease(release, e) ==
    /\ Len(Chars(release)) <= Len(Chars(e.index))
    /\ SubSeq(Chars(e.index), 1, Len(Chars(release))) = Chars(release)

\* debian.setReleaseInfo on the page of the base URL, empty when the fetch
\* failed: the href that starts with the release is cut at its closing
\* quote, and its first five characters are the full release.
debianSetReleaseInfo(d, e, fetched) ==
    IF ~fetched \/ e.page = "empty" \/ ~ListsRelease(d.Release, e)
    THEN [rel |-> d,
          err |-> PlainErr("unable to determine the current debian version")]
    ELSE IF Len(Chars(e.index)) < 5
         THEN [rel |-> d,
               err |-> PlainErr("the version string is less than the expected 5 chars")]
    ELSE [rel |-> [d EXCEPT !.ReleaseFull = StringOf(SubSeq(Chars(e.index), 1, 5))],
          err |-> NoErr]

\* debian.getReleaseVersion returns [rel, err]: a full release that is set
\* is kept; otherwise the page of the base URL, as the object holds it
\* before setISOURL gives it its default, is fetched and searched.  A failed
\* fetch is logged and its empty page searched.
debianGetReleaseVersion(d, e) ==
    IF d.ReleaseFull # "" THEN [rel |-> d, err |-> NoErr]
    ELSE debianSetReleaseInfo(d, e, d.BaseURL # "" /\ e.net = "up")

\* debian.setISOName and setISOURL applied to a release with its full
\* release set.
debianLocated(d) ==
    [d EXCEPT !.BaseURL = IF d.BaseURL = "" THEN "http://cdimage.debian.org/debian-cd/"
                          ELSE d.BaseURL,
              !.Name = <<"debian", d.ReleaseFull, d.Arch, d.Image, ".iso">>,
              !.isoURL = <<IF d.BaseURL = "" THEN "http://cdimage.debian.org/debian-cd/"
                           ELSE d.BaseURL,
                           d.ReleaseFull, d.Arch, "iso-cd",
                           "debian", d.ReleaseFull, d.Arch, d.Image, ".iso">>]

\* debian.setISOChecksum of the located release d.
debianSetISOChecksum(d, e) ==
    IF e.net = "down" THEN [rel |-> d, err |-> NetErr]
    ELSE IF e.page = "empty"
         THEN [rel |-> d, err |-> PlainErr("page to parse was empty")]
    ELSE IF d.Name \notin PageNames("debian", e)
         THEN [rel |-> d, err |-> PlainErr("unable to find the checksum")]
    ELSE [rel |-> [d EXCEPT !.Checksum = IF e.page = "first" THEN "" ELSE e.checksum],
          err |-> NoErr]

debianSetISOInfo(d, e) ==
    IF d.Arch = "" THEN [rel |-> d, err |-> PlainErr("arch was empty")]
    ELSE IF d.Release = "" THEN [rel |-> d, err |-> PlainErr("release was empty")]
    ELSE IF debianGetReleaseVersion(d, e).err # NoErr THEN debianGetReleaseVersion(d, e)
    ELSE debianSetISOChecksum(debianLocated(debianGetReleaseVersion(d, e).rel), e)

\* ubuntu.setISOName applied.
ubuntuNamed(u) ==
    [u EXCEPT !.ReleaseFull = IF u.ReleaseFull = "" THEN u.Release ELSE u.ReleaseFull,
              !.Name = <<"ubuntu", IF u.ReleaseFull = "" THEN u.Release ELSE u.ReleaseFull,
                         u.Image, u.Arch, ".iso">>]

\* The second search of ubuntu.findChecksum, for the named release u whose
\* name was not found past the start of the page: the full release becomes
\* that of the first image listed and the name is set again.
ubuntuSearchAgain(u, e) ==
    IF e.page = "unlisted"
    THEN [rel |-> u, err |-> PlainErr("unable to find ISO information")]
    ELSE IF e.page = "noparse"
         THEN [rel |-> u, err |-> PlainErr("unable to parse release information")]
    ELSE IF ubuntuNamed([u EXCEPT !.ReleaseFull = PageRelease("ubuntu", e)]).Name
               \notin PageNames("ubuntu", e)
         THEN [rel |-> ubuntuNamed([u EXCEPT !.ReleaseFull = PageRelease("ubuntu", e)]),
               err |-> PlainErr("unable to find the checksum")]
    ELSE IF e.page = "first"
         THEN [rel |-> ubuntuNamed([u EXCEPT !.ReleaseFull = PageRelease("ubuntu", e)]),
               err |-> Panic("slice bounds out of range")]
    ELSE [rel |-> [ubuntuNamed([u EXCEPT !.ReleaseFull = PageRelease("ubuntu", e)])
                      EXCEPT !.Checksum = e.checksum],
          err |-> NoErr]

\* ubuntu.setISOChecksum of the named release u: the page of the base URL
\* and release is fetched and findChecksum searches it for the name, once
\* more when the name is not found or found at the start of the page.
ubuntuSetISOChecksum(u, e) ==
    IF u.BaseURL = "" \/ e.net = "down" THEN [rel |-> u, err |-> NetErr]
    ELSE IF e.page = "empty"
         THEN [rel |-> u, err |-> PlainErr("page to parse was empty")]
    ELSE IF u.Name \in PageNames("ubuntu", e) /\ e.page # "first"
         THEN [rel |-> [u EXCEPT !.Checksum = e.checksum], err |-> NoErr]
    ELSE ubuntuSearchAgain(u, e)

\* ubuntu.setISOURL applied to the outcome x of setISOChecksum.
ubuntuLocated(x) ==
    IF x.err # NoErr THEN x
    ELSE [rel |-> [x.rel EXCEPT !.isoURL = <<x.rel.BaseURL, x.rel.Release>> \o x.rel.Name],
          err |-> NoErr]

ubuntuSetISOInfo(u, e) == ubuntuLocated(ubuntuSetISOChecksum(ubuntuNamed(u), e))

SetISOInfo(rel, e) ==
    CASE rel.Distro = "centos" -> centosSetISOInfo(rel, e)
      [] rel.Distro = "debian" -> debianSetISOInfo(rel, e)
      [] OTHER -> ubuntuSetISOInfo(rel, e)

imageURL(rel) == rel.isoURL

\* The release object of the template's distro, its checksum type taken from
\* the work list.
NewRelease(rr, workSlice) ==
    [NilISO EXCEPT !.Distro = rr.Distro, !.Arch = rr.Arch,
                   !.Release = rr.Release, !.Image = rr.Image,
                   !.BaseURL = rr.BaseURL,
                   !.ChecksumType = IF "iso_checksum_type" \in Keys(workSlice)
                                    THEN Lookup(workSlice, "iso_checksum_type") ELSE ""]

\* The template after SetISOInfo returned res and getOSType returned os.
ISOInfoOutcome(rr, res, os) ==
    IF rr.Distro \notin SupportedDistros
    THEN [r |-> rr, err |-> UnsupportedDistroErr(rr.Distro)]
    ELSE IF res.err # NoErr THEN [r |-> rr, err |-> res.err]
    ELSE IF os.err # NoErr THEN [r |-> rr, err |-> os.err]
    ELSE [r |-> [rr EXCEPT !.ReleaseISO = res.rel, !.OSType = os.s], err |-> NoErr]

\* RawTemplate.ISOInfo returns [r, err]: it builds the release object of the
\* template's distro, runs its SetISOInfo and sets r.OSType; on failure the
\* template is returned as it was.
ISOInfo(rr, e, builderType, workSlice) ==
    ISOInfoOutcome(rr, SetISOInfo(NewRelease(rr, workSlice), e),
                   getOSType(rr.Distro, rr.Arch, BuilderString(builderType)))

----------------------------------------------------------------------------
\* Communicator and HTTP directory.

CommunicatorKeys(prefix) ==
    IF prefix = "ssh" THEN {"ssh_username", "ssh_password"}
    ELSE {"winrm_username", "winrm_password"}

\* The entries of the work list with a communicator key, copied into settings.
CopyKeys(ks, ws, m) ==
    [x \in (DOMAIN m) \cup (ks \cap Keys(ws)) |->
        IF x \in ks \cap Keys(ws) THEN StrVal(Lookup(ws, x)) ELSE m[x]]

\* processCommunicator returns [prefix, settings, err].
processCommunicator(rr, ID, workSlice, settings) ==
    LET c == IF "communicator" \in Keys(workSlice)
             THEN Lookup(workSlice, "communicator") ELSE ""
    IN CASE c = "" \/ c = "none" ->
              [prefix |-> "", err |-> NoErr,
               settings |-> IF c = "" THEN settings ELSE Put(settings, "communicator", StrVal(c))]
         [] c \in {"ssh", "winrm"} ->
              [prefix |-> c, err |-> NoErr,
               settings |-> CopyKeys(CommunicatorKeys(c), workSlice,
                                     Put(settings, "communicator", StrVal(c)))]
         [] OTHER ->
              [prefix |-> "", settings |-> settings,
               err |-> SettingErr("communicator", c, PlainErr("invalid option"))]

\* The http_directory found at f: recorded in r.Dirs and set in m.
HTTPDirectory(rr, val, f, m) ==
    IF f.err # NoErr
    THEN [r |-> rr, m |-> m, err |-> PlainErr("setHTTP error")]
    ELSE [r |-> IF f.src # <<>>
                THEN [rr EXCEPT !.Dirs = Put(@, buildOutPath(rr, "", val), f.src)]
                ELSE rr,
          m |-> Put(m, "http_directory",
                    StrVal(buildTemplateResourcePath(rr, "", val, FALSE))),
          err |-> NoErr]

\* setHTTP returns [r, m, err].
setHTTP(rr, e, component, m) ==
    IF Has(m, "http_directory")
    THEN HTTPDirectory(rr, m["http_directory"].v,
                       findSource(rr, e, m["http_directory"].v, component, TRUE), m)
    ELSE HTTPDirectory(rr, "http", findSource(rr, e, "http", component, TRUE), m)

----------------------------------------------------------------------------
\* Helpers shared by the create functions.  The state of a key walk is
\* st = [settings, has, bootCmdFile, guestOSType, isoURL, r, err]; ctx is
\* [ID, prefix, hasCommunicator, e].

HasPrefixDashes(k) == k \in {"--memory", "--cpus"}

\* Variant of createVBoxManage that puts two dashes before every key.
createVBoxManageMutant(rr, val) ==
    [i \in 1..Len(val.items) |->
        <<"modifyvm", "{{.Name}}", "--" \o parseVar(val.items[i])[1],
          replaceVariables(rr, parseVar(val.items[i])[2])>>]

createVBoxManage(rr, val) ==
    [i \in 1..Len(val.items) |->
        LET kv == parseVar(val.items[i])
            k == IF ~HasPrefixDashes(kv[1]) THEN "--" \o kv[1] ELSE kv[1]
        IN <<"modifyvm", "{{.Name}}", k, replaceVariables(rr, kv[2])>>]

createVMXData(rr, val) ==
    LET RECURSIVE Fill(_, _)
        Fill(i, m) == IF i > Len(val.items) THEN m
                      ELSE Fill(i + 1, Put(m, val.items[i].k,
                                           replaceVariables(rr, val.items[i].v)))
    IN Fill(1, EmptyMap)

Initial(rr, settings, has) ==
    [settings |-> settings, has |-> has, bootCmdFile |-> "", guestOSType |-> "",
     isoURL |-> "", runCommandFile |-> "", r |-> rr, err |-> NoErr]

Set(st, k, val) == [st EXCEPT !.settings = Put(@, k, val)]

Flag(st, f) == [st EXCEPT !.has = @ \cup {f}]

Fail(st, e) == [st EXCEPT !.err = e]

\* case "<int key>": strconv.Atoi, a SettingErr when the value does not parse.
IntCase(st, k, v, b, ctx) ==
    IF Atoi(v).ok THEN Set(st, k, IntVal(Atoi(v).i))
    ELSE Fail(st, BuilderErr(ctx.ID, b, SettingErr(k, v, PlainErr("strconv.Atoi"))))

\* The setting of a single-command key from the commands c of its file.
CommandOf(st, k, v, b, ctx, c) ==
    IF c.err # NoErr THEN Fail(st, BuilderErr(ctx.ID, b, SettingErr(k, v, c.err)))
    ELSE IF commandFromSlice(c.cmds) = <<>>
         THEN Fail(st, BuilderErr(ctx.ID, b, SettingErr(k, v, ErrNoCommands)))
    ELSE Set(st, k, StrVal(commandFromSlice(c.cmds)))

\* case "shutdown_command" and the other single-command keys: a literal, or
\* the joined lines of a command file looked up for component comp.
CommandCase(st, k, v, b, comp, ctx) ==
    IF ~stringIsCommandFilename(v) THEN Set(st, k, StrVal(v))
    ELSE CommandOf(st, k, v, b, ctx, commandsFromFile(st.r, ctx.e, v, comp))

\* case "boot_command" of a key walk.
BootCommandCase(st, v) ==
    IF stringIsCommandFilename(v) THEN [st EXCEPT !.bootCmdFile = v] ELSE st

\* The setting of a command array from the commands c of its file.
CommandsOf(st, k, file, b, ctx, c) ==
    IF c.err # NoErr THEN Fail(st, BuilderErr(ctx.ID, b, SettingErr(k, file, c.err)))
    ELSE IF Len(c.cmds) = 0
         THEN Fail(st, BuilderErr(ctx.ID, b, SettingErr(k, file, ErrNoCommands)))
    ELSE Set(st, k, ArrVal(c.cmds))

\* The boot commands of a command file, when the arrays held none.
BootCommandFile(st, b, comp, ctx) ==
    IF st.err # NoErr \/ "hasBootCmd" \in st.has \/ st.bootCmdFile = "" THEN st
    ELSE CommandsOf(st, "boot_command", st.bootCmdFile, b, ctx,
                    commandsFromFile(st.r, ctx.e, st.bootCmdFile, comp))

\* An array copied into the settings unless the copy is nil.
CopyArray(st, name, val) == IF val.isnil THEN st ELSE Set(st, name, ArrVal(val.items))

\* Variant of WorkSlice that leaves common out.
WorkSliceMutant(rr, ID) == rr.Builders[ID].Settings

\* The work list of a create function: common's settings merged with the
\* component's when a common sibling exists.
WorkSlice(rr, ID) ==
    IF BuilderString(Common) \in DOMAIN rr.Builders
    THEN mergeSettingsSlices(rr.Builders[BuilderString(Common)].Settings,
                             rr.Builders[ID].Settings)
    ELSE rr.Builders[ID].Settings

\* The flags a communicator sets before the key walk.
PrefixFlags(prefix, settings, withPassword) ==
    IF prefix = "" THEN {}
    ELSE {"hasCommunicator"}
         \cup (IF Has(settings, prefix \o "_username") THEN {"hasUsername"} ELSE {})
         \cup (IF withPassword /\ Has(settings, prefix \o "_password")
               THEN {"hasPassword"} ELSE {})

\* The iso_url, iso_checksum and iso_checksum_type of the template's release.
ReleaseISOSettings(st, b, ctx) ==
    IF st.r.Distro \in SupportedDistros
    THEN Set(Set(Set(st, "iso_url", StrVal(imageURL(st.r.ReleaseISO))),
                 "iso_checksum", StrVal(st.r.ReleaseISO.Checksum)),
             "iso_checksum_type", StrVal(st.r.ReleaseISO.ChecksumType))
    ELSE Fail(st, BuilderErr(ctx.ID, b, UnsupportedDistroErr(st.r.Distro)))

\* The result of a create function: [settings, err, r, work, prefix].
Result(st, work, prefix) ==
    [settings |-> IF st.err = NoErr THEN st.settings ELSE EmptyMap,
     err |-> st.err, r |-> st.r, work |-> work, prefix |-> prefix]

\* Variant of NotFound whose error does not carry the ID.
NotFoundMutant(rr, ID, b) ==
    [settings |-> EmptyMap, err |-> BuilderErr("", b, ErrBuilderNotFound),
     r |-> rr, work |-> <<>>, prefix |-> ""]

\* return nil, BuilderErr{id: ID, Builder: b, Err: ErrBuilderNotFound}
NotFound(rr, ID, b) ==
    [settings |-> EmptyMap, err |-> BuilderErr(ID, b, ErrBuilderNotFound),
     r |-> rr, work |-> <<>>, prefix |-> ""]

----------------------------------------------------------------------------
\* The key walks of the ISO builders: one step per entry of the work list.

ParallelsISOStringKeys ==
    {"boot_wait", "guest_os_type", "floating_ip", "hard_drive_interface",
     "http_directory", "iso_target_path", "output_directory",
     "parallels_tools_guest_path", "prlctl_version_file", "shutdown_timeout",
     "vm_name"}

StepParallelsISO(st, k, v, ctx) ==
    CASE k \in ParallelsISOStringKeys -> Set(st, k, StrVal(v))
      [] k = "boot_command" -> BootCommandCase(st, v)
      [] k \in {"disk_size", "http_port_max", "http_port_min"} ->
            IntCase(st, k, v, ParallelsISO, ctx)
      [] k = "iso_checksum" -> Flag(Set(st, k, StrVal(v)), "hasISOChecksum")
      [] k = "iso_checksum_type" -> Flag(Set(st, k, StrVal(v)), "hasISOChecksumType")
      [] k = "iso_checksum_url" -> Flag(Set(st, k, StrVal(v)), "hasISOChecksumURL")
      [] k = "iso_url" -> Flag([st EXCEPT !.isoURL = v], "hasISOURL")
      [] k = "parallels_tools_flavor" -> Flag(Set(st, k, StrVal(v)), "hasParallelsToolsFlavor")
      [] k = "parallels_tools_guest_mode" ->
            IF v = "disable" THEN Set(Flag(st, "disableParallelsToolsMode"), k, StrVal(v))
            ELSE IF v \in {"upload", "detach"} THEN Set(st, k, StrVal(v))
            ELSE Fail(st, BuilderErr(ctx.ID, ParallelsISO,
                                     SettingErr(k, v, PlainErr("invalid option"))))
      [] k = "shutdown_command" ->
            CommandCase(st, k, v, ParallelsISO, BuilderString(ParallelsISO), ctx)
      [] k = "skip_compaction" -> Set(st, k, BoolVal(ParseBool(v)))
      [] k = "ssh_username" ->
            IF ctx.hasCommunicator /\ ctx.prefix = "ssh" THEN st
            ELSE Flag(Set(st, k, StrVal(v)), "hasUsername")
      [] OTHER -> st

QEMUStringKeys ==
    {"accelerator", "boot_wait", "disk_cache", "disk_discard", "disk_interface",
     "format", "http_directory", "iso_target_path", "net_device",
     "output_directory", "qemu_binary"}

StepQEMU(st, k, v, ctx) ==
    CASE k \in QEMUStringKeys -> Set(st, k, StrVal(v))
      [] k = "boot_command" -> BootCommandCase(st, v)
      [] k \in {"disk_compression", "disk_image", "headless", "skip_compaction"} ->
            Set(st, k, BoolVal(ParseBool(v)))
      [] k \in {"disk_size", "http_port_min", "http_port_max"} ->
            IntCase(st, k, v, QEMU, ctx)
      [] k = "iso_checksum" -> Flag(Set(st, k, StrVal(v)), "hasChecksum")
      [] k = "iso_checksum_type" -> Flag(Set(st, k, StrVal(v)), "hasChecksumType")
      [] k = "iso_url" -> Flag(Set(st, k, StrVal(v)), "hasISOURL")
      [] k = "ssh_username" ->
            IF ctx.hasCommunicator THEN st
            ELSE Flag(Set(st, k, StrVal(v)), "hasUsername")
      [] OTHER -> st

VirtualBoxISOStringKeys ==
    {"boot_wait", "format", "guest_additions_mode", "guest_additions_path",
     "guest_additions_sha256", "guest_additions_url", "hard_drive_interface",
     "http_directory", "iso_interface", "iso_target_path", "output_directory",
     "shutdown_timeout", "virtualbox_version_file", "vm_name"}

StepVirtualBoxISO(st, k, v, ctx) ==
    CASE k \in VirtualBoxISOStringKeys -> Set(st, k, StrVal(v))
      [] k = "boot_command" -> BootCommandCase(st, v)
      [] k \in {"disk_size", "http_port_min", "http_port_max"} ->
            IntCase(st, k, v, VirtualBoxISO, ctx)
      [] k = "guest_os_type" -> [Set(st, k, StrVal(v)) EXCEPT !.guestOSType = v]
      [] k = "headless" -> Set(st, k, BoolVal(ParseBool(v)))
      [] k = "iso_checksum" -> Flag(Set(st, k, StrVal(v)), "hasChecksum")
      [] k = "iso_checksum_type" -> Flag(Set(st, k, StrVal(v)), "hasChecksumType")
      [] k = "iso_url" -> Flag(Set(st, k, StrVal(v)), "hasISOURL")
      [] k = "shutdown_command" ->
            CommandCase(st, k, v, VirtualBoxISO, BuilderString(VirtualBoxISO), ctx)
      [] k \in {"ssh_host_port_min", "ssh_host_port_max"} ->
            IF ctx.prefix = "winrm" THEN st ELSE IntCase(st, k, v, VirtualBoxISO, ctx)
      [] k = "ssh_password" ->
            IF ctx.hasCommunicator THEN st
            ELSE Flag(Set(st, k, StrVal(v)), "hasPassword")
      [] k = "ssh_username" ->
            IF ctx.hasCommunicator THEN st
            ELSE Flag(Set(st, k, StrVal(v)), "hasUsername")
      [] OTHER -> st

VMWareISOStringKeys ==
    {"boot_wait", "disk_type_id", "fusion_app_path", "http_directory",
     "iso_target_path", "output_directory", "remote_cache_datastore",
     "remote_cache_directory", "remote_datastore", "remote_host",
     "remote_password", "remote_private_key_file", "remote_type",
     "remote_username", "shutdown_timeout", "tools_upload_flavor",
     "tools_upload_path", "version", "vm_name", "vmdk_name",
     "vmx_template_path"}

StepVMWareISO(st, k, v, ctx) ==
    CASE k \in VMWareISOStringKeys -> Set(st, k, StrVal(v))
      [] k = "boot_command" -> BootCommandCase(st, v)
      [] k \in {"disk_size", "http_port_max", "http_port_min", "vnc_port_min",
                "vnc_port_max"} -> IntCase(st, k, v, VMWareISO, ctx)
      [] k = "guest_os_type" -> [st EXCEPT !.guestOSType = v]
      [] k \in {"headless", "skip_compaction"} -> Set(st, k, BoolVal(ParseBool(v)))
      [] k = "iso_checksum" -> Flag(Set(st, k, StrVal(v)), "hasChecksum")
      [] k = "iso_checksum_type" -> Flag(Set(st, k, StrVal(v)), "hasChecksumType")
      [] k = "iso_url" -> Flag(Set(st, k, StrVal(v)), "hasISOURL")
      [] k = "shutdown_command" ->
            CommandCase(st, k, v, VMWareISO, BuilderString(VMWareISO), ctx)
      [] k = "ssh_username" ->
            IF ctx.hasCommunicator THEN st
            ELSE Flag(Set(st, k, StrVal(v)), "hasUsername")
      [] OTHER -> st

----------------------------------------------------------------------------
\* The arrays passes of the ISO builders: one step per named array.

ArrayParallelsISO(st, name, val, ctx) ==
    CASE name = "boot_command" ->
            IF val.isnil THEN st ELSE Flag(Set(st, name, ArrVal(val.items)), "hasBootCmd")
      [] name = "iso_urls" ->
            IF val.isnil THEN st ELSE Flag(Set(st, name, ArrVal(val.items)), "hasISOURLs")
      [] name \in {"floppy_files", "host_interfaces", "prlctl", "prlctl_post"} ->
            CopyArray(st, name, val)
      [] OTHER -> st

ArrayQEMU(st, name, val, ctx) ==
    CASE name = "boot_command" ->
            IF val.isnil THEN st ELSE Flag(Set(st, name, ArrVal(val.items)), "hasBootCmd")
      [] name = "iso_urls" ->
            IF "hasISOURL" \in st.has \/ val.isnil THEN st
            ELSE Flag(Set(st, name, ArrVal(val.items)), "hasISOURL")
      [] name \in {"floppy_files", "qemuargs"} -> CopyArray(st, name, val)
      [] OTHER -> st

ArrayVirtualBoxISO(st, name, val, ctx) ==
    CASE name = "boot_command" ->
            IF val.isnil THEN st ELSE Flag(Set(st, name, ArrVal(val.items)), "hasBootCmd")
      [] name = "iso_urls" ->
            IF "hasISOURL" \in st.has \/ val.isnil THEN st
            ELSE Flag(Set(st, name, ArrVal(val.items)), "hasISOURL")
      [] name \in {"export_opts", "floppy_files"} -> CopyArray(st, name, val)
      [] name \in {"vboxmanage", "vboxmanage_post"} ->
            Set(st, name, ArrVal(createVBoxManage(st.r, val)))
      [] OTHER -> st

\* case []string of disk_additional_size: every item converted with Atoi,
\* the setting made when at least one item was converted.
DiskSizeStrings(st, name, val, ctx) ==
    IF \E i \in 1..Len(val.items) : ~Atoi(val.items[i]).ok
    THEN Fail(st, BuilderErr(ctx.ID, VMWareISO,
                             SettingErr(name, val.items, PlainErr("strconv.Atoi"))))
    ELSE IF Len(val.items) > 0
         THEN Set(st, name, ArrVal([i \in 1..Len(val.items) |-> Atoi(val.items[i]).i]))
    ELSE st

\* disk_additional_size: an int array is copied unless the copy is nil, a
\* string array converted, any other type an error.
DiskAdditionalSize(st, name, val, ctx) ==
    CASE val.kind = "[]int" -> CopyArray(st, name, val)
      [] val.kind = "[]string" -> DiskSizeStrings(st, name, val, ctx)
      [] OTHER ->
            Fail(st, BuilderErr(ctx.ID, VMWareISO,
                                SettingErr(name, val.items,
                                           PlainErr("must be either an int or string array"))))

ArrayVMWareISO(st, name, val, ctx) ==
    CASE name = "boot_command" ->
            IF val.isnil THEN st ELSE Flag(Set(st, name, ArrVal(val.items)), "hasBootCmd")
      [] name = "disk_additional_size" -> DiskAdditionalSize(st, name, val, ctx)
      [] name = "iso_urls" ->
            IF "hasISOURL" \in st.has THEN st
            ELSE Flag(Set(st, name, ArrVal(val.items)), "hasISOURL")
      [] name = "floppy_files" -> CopyArray(st, name, val)
      [] name \in {"vmx_data", "vmx_data_post"} ->
            Set(st, name, ArrVal(createVMXData(st.r, val)))
      [] OTHER -> st

----------------------------------------------------------------------------
\* Stages shared by the create functions; each acts only when no earlier
\* stage failed.

\* if !has<Flag> { return nil, BuilderErr{..., RequiredSettingErr{key}} }
Require(st, flag, b, ID, key) ==
    IF st.err # NoErr \/ flag \in st.has THEN st
    ELSE Fail(st, BuilderErr(ID, b, RequiredSettingErr(key)))

\* if !hasA && !hasB { return nil, BuilderErr{..., RequiredSettingErr{key}} }
RequireAny(st, flags, b, ID, key) ==
    IF st.err # NoErr \/ flags \cap st.has # {} THEN st
    ELSE Fail(st, BuilderErr(ID, b, RequiredSettingErr(key)))

\* if !hasISOURLs { settings["iso_url"] = isoURL }
SetISOURL(st) ==
    IF st.err # NoErr \/ "hasISOURLs" \in st.has THEN st
    ELSE Set(st, "iso_url", StrVal(st.isoURL))

\* if guestOSType == "" { settings["guest_os_type"] = r.OSType }
DefaultGuestOSType(st) ==
    IF st.err # NoErr \/ st.guestOSType # "" THEN st
    ELSE Set(st, "guest_os_type", StrVal(st.r.OSType))

\* if guestOSType == "" { guestOSType = r.OSType }; settings["guest_os_type"] = guestOSType
SetGuestOSType(st) ==
    IF st.err # NoErr THEN st
    ELSE Set(st, "guest_os_type",
             StrVal(IF st.guestOSType = "" THEN st.r.OSType ELSE st.guestOSType))

\* The same check returned as a bare RequiredSettingErr.
RequireBare(st, flag, key) ==
    IF st.err # NoErr \/ flag \in st.has THEN st
    ELSE Fail(st, RequiredSettingErr(key))

\* The outcome h of setHTTP applied: its error, or its template and settings.
HTTPResult(st, b, ctx, wrapped, h) ==
    IF h.err # NoErr
    THEN Fail(st, IF wrapped THEN BuilderErr(ctx.ID, b, h.err) ELSE h.err)
    ELSE [st EXCEPT !.r = h.r, !.settings = h.m]

\* err = r.setHTTP(b.String(), settings)
HTTPStage(st, b, ctx, wrapped) ==
    IF st.err # NoErr THEN st
    ELSE HTTPResult(st, b, ctx, wrapped,
                    setHTTP(st.r, ctx.e, BuilderString(b), st.settings))

\* The outcome i of ISOInfo applied: its error, or its template.
ISOInfoResult(st, b, ctx, i) ==
    IF i.err.typ = "panic" THEN Fail(st, i.err)
    ELSE IF i.err # NoErr THEN Fail(st, BuilderErr(ctx.ID, b, i.err))
    ELSE [st EXCEPT !.r = i.r]

\* if r.OSType == "" { err = r.ISOInfo(builderType, workSlice) }
ISOInfoStage(st, b, builderType, work, ctx) ==
    IF st.err # NoErr \/ st.r.OSType # "" THEN st
    ELSE ISOInfoResult(st, b, ctx, ISOInfo(st.r, ctx.e, builderType, work))

\* Variant of ISOTail that asks for no checksum when the ISO was given.
ISOTailMutant(st, b, ctx) ==
    IF st.err # NoErr THEN st
    ELSE IF "hasISOURL" \notin st.has THEN ReleaseISOSettings(st, b, ctx)
    ELSE st

\* The tail of the ISO builders that discover their ISO: the release's
\* values when neither iso_url nor iso_urls was given, otherwise the
\* checksum and its type are required.
ISOTail(st, b, ctx) ==
    IF st.err # NoErr THEN st
    ELSE IF "hasISOURL" \notin st.has THEN ReleaseISOSettings(st, b, ctx)
    ELSE Require(Require(st, "hasChecksum", b, ctx.ID, "iso_checksum"),
                 "hasChecksumType", b, ctx.ID, "iso_checksum_type")

\* The state of a create function before the key walk, after the
\* communicator was processed.
Start(rr, b, ID, work, pcr, withPassword) ==
    IF pcr.err # NoErr
    THEN Fail(Initial(rr, pcr.settings, {}), BuilderErr(ID, b, pcr.err))
    ELSE Initial(rr, pcr.settings, PrefixFlags(pcr.prefix, pcr.settings, withPassword))

Ctx(ID, pcr, e) ==
    [ID |-> ID, prefix |-> pcr.prefix, hasCommunicator |-> pcr.prefix # "", e |-> e]

\* Variant of TypeSetting that gives every kind the same type.
TypeSettingMutant(b) == Put(EmptyMap, "type", StrVal(BuilderString(VirtualBoxISO)))

\* settings["type"] = b.String()
TypeSetting(b) == Put(EmptyMap, "type", StrVal(BuilderString(b)))

----------------------------------------------------------------------------
\* The Amazon builders.

\* A key walk case that only copies the value: a required key also raises
\* its flag, a bool key is parsed.
SimpleStep(st, k, v, required, strs, bools) ==
    CASE k \in required -> Flag(Set(st, k, StrVal(v)), "has_" \o k)
      [] k \in strs -> Set(st, k, StrVal(v))
      [] k \in bools -> Set(st, k, BoolVal(ParseBool(v)))
      [] OTHER -> st

\* The required-key checks of a create function, in the order of the code.
RECURSIVE RequireKeys(_, _, _, _, _)
RequireKeys(st, keys, i, b, ID) ==
    IF i > Len(keys) \/ st.err # NoErr THEN st
    ELSE RequireKeys(Require(st, "has_" \o keys[i], b, ID, keys[i]), keys, i + 1, b, ID)

\* case "user_data_file" and "source_path": the source is found, recorded
\* in r.Files under the output path and the setting becomes the template's
\* resource path.
FileCase(st, k, v, b, ledgerComponent, isDir, wrapSetting, ctx) ==
    LET f == findSource(st.r, ctx.e, v, BuilderString(b), isDir)
        rr == IF f.src # <<>>
              THEN [st.r EXCEPT !.Files = Put(@, buildOutPath(st.r, ledgerComponent, v), f.src)]
              ELSE st.r
    IN IF f.err # NoErr
       THEN Fail(st, BuilderErr(ctx.ID, b, IF wrapSetting THEN SettingErr(k, v, f.err) ELSE f.err))
       ELSE [Set(st, k, StrVal(buildTemplateResourcePath(st.r, BuilderString(b), v, FALSE)))
                EXCEPT !.r = rr]

AmazonChrootRequired == <<"access_key", "ami_name", "secret_key", "source_ami">>

StepAmazonChroot(st, k, v, ctx) ==
    IF k = "root_volume_size"
    THEN Fail(st, SettingErr(k, v, IF Atoi(v).ok THEN NoErr ELSE PlainErr("strconv.Atoi")))
    ELSE SimpleStep(st, k, v, {"access_key", "ami_name", "secret_key", "source_ami"},
                    {"ami_description", "ami_virtualization_type", "command_wrapper",
                     "device_path", "mount_path"},
                    {"enhanced_networking", "force_deregister"})

AmazonChrootArrays ==
    {"ami_groups", "ami_product_codes", "ami_regions", "ami_users", "chroot_mounts",
     "copy_files", "mount_options", "tags"}

AmazonEBSRequired ==
    <<"access_key", "ami_name", "instance_type", "region", "secret_key", "source_ami">>

StepAmazonEBS(st, k, v, ctx) ==
    CASE k \in {"ssh_keypair_name", "ssh_private_key_file"} ->
            IF ctx.hasCommunicator /\ ctx.prefix # "ssh" THEN st ELSE Set(st, k, StrVal(v))
      [] k = "ssh_username" ->
            IF ctx.hasCommunicator THEN st ELSE Flag(Set(st, k, StrVal(v)), "hasUsername")
      [] k = "user_data_file" ->
            FileCase(st, k, v, AmazonEBS, BuilderString(AmazonEBS), FALSE, TRUE, ctx)
      [] k = "windows_password_timeout" ->
            IF ctx.hasCommunicator /\ ctx.prefix # "winrm" THEN st ELSE Set(st, k, StrVal(v))
      [] OTHER ->
            SimpleStep(st, k, v,
                       {"access_key", "ami_name", "instance_type", "region", "secret_key",
                        "source_ami"},
                       {"ami_description", "availability_zone", "iam_instance_profile",
                        "security_group_id", "spot_price", "spot_price_auto_product",
                        "subnet_id", "temporary_key_pair_name", "token", "user_data",
                        "vpc_id"},
                       {"associate_public_ip_address", "enhanced_networking",
                        "force_deregister"})

AmazonEBSArrays ==
    {"ami_groups", "ami_product_codes", "ami_regions", "ami_users",
     "launch_block_device_mappings", "run_tags", "security_group_ids", "tags"}

AmazonInstanceRequired ==
    <<"access_key", "account_id", "ami_name", "instance_type", "region", "s3_bucket",
      "secret_key", "source_ami">>

StepAmazonInstance(st, k, v, ctx) ==
    CASE k \in {"bundle_upload_command", "bundle_vol_command"} ->
            CommandCase(st, k, v, AmazonInstance, BuilderString(AmazonInstance), ctx)
      [] k = "ssh_keypair_name" ->
            IF ctx.hasCommunicator /\ ctx.prefix # "ssh" THEN st ELSE Set(st, k, StrVal(v))
      [] k = "ssh_private_ip" ->
            IF ctx.hasCommunicator /\ ctx.prefix # "ssh" THEN st
            ELSE Set(st, k, BoolVal(ParseBool(v)))
      [] k = "ssh_private_key_file" ->
            IF ctx.hasCommunicator THEN st ELSE Set(st, k, StrVal(v))
      [] k = "ssh_username" ->
            IF ctx.hasCommunicator THEN st ELSE Flag(Set(st, k, StrVal(v)), "hasUsername")
      [] k = "user_data_file" ->
            FileCase(st, k, v, AmazonInstance, BuilderString(AmazonEBS), FALSE, TRUE, ctx)
      [] k = "windows_password_timeout" ->
            IF ctx.hasCommunicator /\ ctx.prefix # "winrm" THEN st ELSE Set(st, k, StrVal(v))
      [] OTHER ->
            SimpleStep(st, k, v,
                       {"access_key", "account_id", "ami_name", "instance_type", "region",
                        "s3_bucket", "secret_key", "source_ami", "x509_cert_path",
                        "x509_key_path"},
                       {"ami_description", "ami_virtualization_type", "availability_zone",
                        "bundle_destination", "bundle_prefix", "iam_instance_profile",
                        "security_group_id", "spot_price", "spot_price_auto_product",
                        "subnet_id", "temporary_key_pair_name", "user_data", "vpc_id",
                        "x509_upload_path"},
                       {"associate_public_ip_address", "ebs_optimized",
                        "enhanced_networking", "force_deregister"})

\* One block device mapping: its known keys, typed.
RECURSIVE BlockDeviceMapping(_, _, _)
BlockDeviceMapping(entries, i, m) ==
    IF i > Len(entries) THEN [vals |-> m, err |-> NoErr]
    ELSE LET k == entries[i].k
             v == entries[i].v
         IN CASE k \in {"delete_on_termination", "encrypted", "no_device"} ->
                    BlockDeviceMapping(entries, i + 1, Put(m, k, BoolVal(ParseBool(v))))
              [] k \in {"device_name", "snapshot_id", "virtual_name", "volume_type"} ->
                    BlockDeviceMapping(entries, i + 1, Put(m, k, StrVal(v)))
              [] k \in {"iops", "volume_size"} ->
                    IF Atoi(v).ok
                    THEN BlockDeviceMapping(entries, i + 1, Put(m, k, IntVal(Atoi(v).i)))
                    ELSE [vals |-> m,
                          err |-> SettingErr("ami_block_device_mappings." \o k, v,
                                             PlainErr("strconv.Atoi"))]
              [] OTHER -> BlockDeviceMapping(entries, i + 1, m)

\* The [][]string form of the mappings, each a list of settings, processed
\* into maps; the first failing mapping's error ends the processing.
BlockDeviceSlices(val) ==
    LET res == [i \in 1..Len(val.items) |-> BlockDeviceMapping(val.items[i], 1, EmptyMap)]
        bad == {i \in 1..Len(val.items) : res[i].err # NoErr}
    IN IF bad = {} THEN [v |-> [i \in 1..Len(val.items) |-> res[i].vals], err |-> NoErr]
       ELSE [v |-> <<>>, err |-> res[CHOOSE i \in bad : \A j \in bad : i <= j].err]

\* processAMIBlockDeviceMappings returns [v, err]: mappings given as maps
\* are returned as they are, mappings given as string slices are processed,
\* anything else is an error.
processAMIBlockDeviceMappings(rr, val) ==
    CASE val.kind = "[]map[string]interface{}" -> [v |-> val.items, err |-> NoErr]
      [] val.kind = "[][]string" -> BlockDeviceSlices(val)
      [] OTHER ->
            [v |-> <<>>,
             err |-> SettingErr("ami_block_device_mappings", "",
                                PlainErr("not in a supported format"))]

\* case "ami_block_device_mappings": the processed mappings m, or their error.
BlockDeviceMappings(st, name, b, ctx, m) ==
    IF m.err # NoErr THEN Fail(st, BuilderErr(ctx.ID, b, m.err))
    ELSE Set(st, name, ArrVal(m.v))

ArrayAmazon(st, name, val, b, copied, ctx) ==
    CASE name = "ami_block_device_mappings" /\ b # AmazonChroot ->
            BlockDeviceMappings(st, name, b, ctx, processAMIBlockDeviceMappings(st.r, val))
      [] name \in copied -> CopyArray(st, name, val)
      [] OTHER -> st

----------------------------------------------------------------------------
\* The cloud, container and null builders.

DigitalOceanRequired == <<"api_token", "image", "region", "size">>

StepDigitalOcean(st, k, v, ctx) ==
    SimpleStep(st, k, v, {"api_token", "image", "region", "size"},
               {"droplet_name", "snapshot_name", "state_timeout", "user_data"},
               {"private_networking"})

StepDocker(st, k, v, ctx) ==
    CASE k \in {"commit", "discard"} -> Flag(Set(st, k, BoolVal(ParseBool(v))), "has_" \o k)
      [] k = "run_command" ->
            IF stringIsCommandFilename(v) THEN [st EXCEPT !.runCommandFile = v] ELSE st
      [] OTHER ->
            SimpleStep(st, k, v, {"export_path", "image"},
                       {"login_email", "login_password", "login_username", "login_server"},
                       {"login", "pull"})

ArrayDocker(st, name, val, ctx) ==
    CASE name = "run_command" -> Flag(Set(st, name, ArrVal(val.items)), "hasRunCommandArray")
      [] name = "volumes" -> Set(st, name, ArrVal(val.items))
      [] OTHER -> st

\* The run commands of a command file, when the arrays held none.
RunCommandFile(st, ctx) ==
    IF st.err # NoErr \/ "hasRunCommandArray" \in st.has \/ st.runCommandFile = "" THEN st
    ELSE CommandsOf(st, "run_command", st.runCommandFile, Docker, ctx,
                    commandsFromFile(st.r, ctx.e, st.runCommandFile, BuilderString(Docker)))

GoogleComputeRequired == <<"project_id", "source_image", "zone">>

StepGoogleCompute(st, k, v, ctx) ==
    IF k = "disk_size" THEN IntCase(st, k, v, GoogleCompute, ctx)
    ELSE SimpleStep(st, k, v, {"project_id", "source_image", "zone"},
                    {"account_file", "address", "image_name", "image_description",
                     "instance_name", "machine_type", "network", "state_timeout"},
                    {"preemtible", "use_internal_ip"})

OpenStackRequired == <<"flavor", "image_name", "source_image">>

StepOpenStack(st, k, v, ctx) ==
    CASE k = "password" ->
            IF ctx.hasCommunicator THEN st ELSE Flag(Set(st, k, StrVal(v)), "hasPassword")
      [] k = "username" ->
            IF ctx.hasCommunicator THEN st ELSE Flag(Set(st, k, StrVal(v)), "hasUsername")
      [] k = "ssh_interface" ->
            IF ctx.hasCommunicator /\ ctx.prefix # "ssh" THEN st ELSE Set(st, k, StrVal(v))
      [] OTHER ->
            SimpleStep(st, k, v, {"flavor", "image_name", "source_image"},
                       {"api_key", "availability_zone", "floating_ip", "floating_ip_pool",
                        "region", "tenant_id", "tenant_name"},
                       {"config_drive", "insecure", "metadata", "rackconnect_wait",
                        "use_floating_ip"})

----------------------------------------------------------------------------
\* The builders that start from an existing machine image.

StepParallelsPVM(st, k, v, ctx) ==
    CASE k = "boot_command" -> BootCommandCase(st, v)
      [] k = "parallels_tools_flavor" -> Flag(Set(st, k, StrVal(v)), "hasParallelsToolsFlavor")
      [] k = "parallels_tools_mode" ->
            IF v = "disable" THEN Set(Flag(st, "disableParallelsToolsMode"), k, StrVal(v))
            ELSE IF v \in {"upload", "detach"} THEN Set(st, k, StrVal(v))
            ELSE Fail(st, BuilderErr(ctx.ID, ParallelsPVM,
                                     SettingErr(k, v, PlainErr("invalid option"))))
      [] k = "shutdown_command" ->
            CommandCase(st, k, v, ParallelsPVM, BuilderString(ParallelsISO), ctx)
      [] k = "source_path" ->
            Flag(FileCase(st, k, v, ParallelsPVM, BuilderString(ParallelsPVM), FALSE, TRUE, ctx),
                 "hasSourcePath")
      [] k = "ssh_username" ->
            IF ctx.hasCommunicator THEN st ELSE Flag(Set(st, k, StrVal(v)), "hasUsername")
      [] OTHER ->
            SimpleStep(st, k, v, {},
                       {"boot_wait", "output_directory", "parallels_tools_guest_path",
                        "parallels_tools_path", "prlctl_version_file", "shutdown_timeout",
                        "vm_name"},
                       {"reassign_mac", "skip_compaction"})

ArrayParallelsPVM(st, name, val, ctx) ==
    CASE name = "boot_command" ->
            IF val.isnil THEN st ELSE Flag(Set(st, name, ArrVal(val.items)), "hasBootCmd")
      [] name \in {"floppy_files", "host_interfaces", "prlctl", "prlctl_post"} ->
            CopyArray(st, name, val)
      [] OTHER -> st

StepVirtualBoxOVF(st, k, v, ctx) ==
    CASE k = "boot_command" -> BootCommandCase(st, v)
      [] k \in {"http_port_min", "http_port_max"} -> IntCase(st, k, v, VirtualBoxOVF, ctx)
      [] k = "shutdown_command" ->
            CommandCase(st, k, v, VirtualBoxOVF, BuilderString(VirtualBoxOVF), ctx)
      [] k = "source_path" ->
            Flag(FileCase(st, k, v, VirtualBoxOVF, BuilderString(VirtualBoxOVF), TRUE, FALSE, ctx),
                 "hasSourcePath")
      [] k \in {"ssh_host_port_min", "ssh_host_port_max"} ->
            IF ctx.prefix = "winrm" THEN st ELSE IntCase(st, k, v, VirtualBoxOVF, ctx)
      [] k = "ssh_skip_nat_mapping" ->
            IF ctx.prefix = "winrm" THEN st ELSE Set(st, k, BoolVal(ParseBool(v)))
      [] k = "ssh_username" ->
            IF ctx.hasCommunicator THEN st ELSE Flag(Set(st, k, StrVal(v)), "hasUsername")
      [] OTHER ->
            SimpleStep(st, k, v, {},
                       {"boot_wait", "format", "guest_additions_mode", "guest_additions_path",
                        "guest_additions_sha256", "guest_additions_url", "http_directory",
                        "import_opts", "output_directory", "shutdown_timeout",
                        "virtualbox_version_file", "vm_name"},
                       {"headless"})

ArrayVirtualBoxOVF(st, name, val, ctx) ==
    CASE name = "boot_command" ->
            IF val.isnil THEN st ELSE Flag(Set(st, name, ArrVal(val.items)), "hasBootCmd")
      [] name \in {"export_opts", "floppy_files", "import_flags"} ->
            IF val.isnil THEN st ELSE Flag(Set(st, name, ArrVal(val.items)), "hasBootCmd")
      [] name \in {"vboxmanage", "vboxmanage_post"} ->
            Set(st, name, ArrVal(createVBoxManage(st.r, val)))
      [] OTHER -> st

StepVMWareVMX(st, k, v, ctx) ==
    CASE k = "boot_command" -> BootCommandCase(st, v)
      [] k \in {"http_port_max", "http_port_min", "vnc_port_max", "vnc_port_min"} ->
            IntCase(st, k, v, VMWareVMX, ctx)
      [] k = "shutdown_command" ->
            CommandCase(st, k, v, VMWareVMX, BuilderString(VMWareVMX), ctx)
      [] k = "source_path" ->
            Flag(FileCase(st, k, v, VMWareVMX, BuilderString(VMWareVMX), TRUE, FALSE, ctx),
                 "hasSourcePath")
      [] k = "ssh_username" ->
            IF ctx.hasCommunicator THEN st ELSE Flag(Set(st, k, StrVal(v)), "hasUsername")
      [] OTHER ->
            SimpleStep(st, k, v, {},
                       {"boot_wait", "fusion_app_path", "http_directory", "output_directory",
                        "shutdown_timeout", "vm_name"},
                       {"headless", "skip_compaction"})

ArrayVMWareVMX(st, name, val, ctx) ==
    CASE name = "boot_command" ->
            IF val.isnil THEN st ELSE Flag(Set(st, name, ArrVal(val.items)), "hasBootCmd")
      [] name = "floppy_files" -> CopyArray(st, name, val)
      [] name \in {"vmx_data", "vmx_data_post"} ->
            Set(st, name, ArrVal(createVMXData(st.r, val)))
      [] OTHER -> st

----------------------------------------------------------------------------
\* Key walk and arrays pass, by builder kind.

Step(b, st, k, v, ctx) ==
    CASE b = AmazonChroot -> StepAmazonChroot(st, k, v, ctx)
      [] b = AmazonEBS -> StepAmazonEBS(st, k, v, ctx)
      [] b = AmazonInstance -> StepAmazonInstance(st, k, v, ctx)
      [] b = DigitalOcean -> StepDigitalOcean(st, k, v, ctx)
      [] b = Docker -> StepDocker(st, k, v, ctx)
      [] b = GoogleCompute -> StepGoogleCompute(st, k, v, ctx)
      [] b = OpenStack -> StepOpenStack(st, k, v, ctx)
      [] b = ParallelsISO -> StepParallelsISO(st, k, v, ctx)
      [] b = ParallelsPVM -> StepParallelsPVM(st, k, v, ctx)
      [] b = QEMU -> StepQEMU(st, k, v, ctx)
      [] b = VirtualBoxISO -> StepVirtualBoxISO(st, k, v, ctx)
      [] b = VirtualBoxOVF -> StepVirtualBoxOVF(st, k, v, ctx)
      [] b = VMWareISO -> StepVMWareISO(st, k, v, ctx)
      [] b = VMWareVMX -> StepVMWareVMX(st, k, v, ctx)
      [] OTHER -> st

\* for _, s := range workSlice { k, v := parseVar(s); v = r.replaceVariables(v); switch k {...} }
RECURSIVE Walk(_, _, _, _, _)
Walk(b, ws, i, st, ctx) ==
    IF i > Len(ws) \/ st.err # NoErr THEN st
    ELSE Walk(b, ws, i + 1,
              Step(b, st, parseVar(ws[i])[1], replaceVariables(st.r, parseVar(ws[i])[2]), ctx),
              ctx)

ArrayStep(b, st, name, val, ctx) ==
    CASE b = AmazonChroot -> ArrayAmazon(st, name, val, b, AmazonChrootArrays, ctx)
      [] b \in {AmazonEBS, AmazonInstance} -> ArrayAmazon(st, name, val, b, AmazonEBSArrays, ctx)
      [] b = Docker -> ArrayDocker(st, name, val, ctx)
      [] b = GoogleCompute ->
            IF name \in {"metadata", "tags"} THEN CopyArray(st, name, val) ELSE st
      [] b = OpenStack ->
            IF name \in {"metadata", "networks", "security_groups"}
            THEN CopyArray(st, name, val) ELSE st
      [] b = ParallelsISO -> ArrayParallelsISO(st, name, val, ctx)
      [] b = ParallelsPVM -> ArrayParallelsPVM(st, name, val, ctx)
      [] b = QEMU -> ArrayQEMU(st, name, val, ctx)
      [] b = VirtualBoxISO -> ArrayVirtualBoxISO(st, name, val, ctx)
      [] b = VirtualBoxOVF -> ArrayVirtualBoxOVF(st, name, val, ctx)
      [] b = VMWareISO -> ArrayVMWareISO(st, name, val, ctx)
      [] b = VMWareVMX -> ArrayVMWareVMX(st, name, val, ctx)
      [] OTHER -> st

\* for name, val := range r.Builders[ID].Arrays { switch name {...} }
RECURSIVE ArraysFrom(_, _, _, _, _, _)
ArraysFrom(b, arrays, names, i, st, ctx) ==
    IF i > Len(names) \/ st.err # NoErr THEN st
    ELSE ArraysFrom(b, arrays, names, i + 1,
                    ArrayStep(b, st, names[i], arrays[names[i]], ctx), ctx)

ProcessArrays(b, st, ID, ctx) ==
    IF st.err # NoErr THEN st
    ELSE ArraysFrom(b, st.r.Builders[ID].Arrays,
                    SeqOfSet(DOMAIN st.r.Builders[ID].Arrays), 1, st, ctx)

----------------------------------------------------------------------------
\* The create functions of the ISO builders.

createParallelsISO(rr, e, ID) ==
    IF ID \notin DOMAIN rr.Builders THEN NotFound(rr, ID, ParallelsISO)
    ELSE
    LET b == ParallelsISO
        work == WorkSlice(rr, ID)
        pcr == processCommunicator(rr, ID, work, TypeSetting(b))
        ctx == Ctx(ID, pcr, e)
        s1 == Walk(b, work, 1, Start(rr, b, ID, work, pcr, FALSE), ctx)
        s2 == RequireAny(s1, {"hasISOChecksum", "hasISOChecksumURL"}, b, ID,
                         "iso_checksum or iso_checksum_url")
        s3 == Require(s2, "hasISOChecksumType", b, ID, "iso_checksum_type")
        s4 == RequireAny(s3, {"disableParallelsToolsMode", "hasParallelsToolsFlavor"},
                         b, ID, "parallels_tools_flavor")
        s5 == Require(s4, "hasUsername", b, ID,
                      IF pcr.prefix = "" THEN "ssh_username" ELSE pcr.prefix \o "_username")
        s6 == ProcessArrays(b, s5, ID, ctx)
        s7 == BootCommandFile(s6, b, BuilderString(b), ctx)
        s8 == RequireAny(s7, {"hasISOURLs", "hasISOURL"}, b, ID, "iso_url")
        s9 == SetISOURL(s8)
    IN Result(s9, work, pcr.prefix)

createQEMU(rr, e, ID) ==
    IF ID \notin DOMAIN rr.Builders THEN NotFound(rr, ID, QEMU)
    ELSE
    LET b == QEMU
        work == WorkSlice(rr, ID)
        pcr == processCommunicator(rr, ID, work, TypeSetting(b))
        ctx == Ctx(ID, pcr, e)
        s1 == Walk(b, work, 1, Start(rr, b, ID, work, pcr, FALSE), ctx)
        s2 == Require(s1, "hasUsername", b, ID, pcr.prefix \o "_username")
        s3 == HTTPStage(s2, b, ctx, TRUE)
        s4 == ProcessArrays(b, s3, ID, ctx)
        s5 == BootCommandFile(s4, b, BuilderString(b), ctx)
        s6 == RequireBare(s5, "hasISOURL", "iso_url")
        s7 == ISOTail(s6, b, ctx)
    IN Result(s7, work, pcr.prefix)

createVirtualBoxISO(rr, e, ID) ==
    IF ID \notin DOMAIN rr.Builders THEN NotFound(rr, ID, VirtualBoxISO)
    ELSE
    LET b == VirtualBoxISO
        work == WorkSlice(rr, ID)
        pcr == processCommunicator(rr, ID, work, TypeSetting(b))
        ctx == Ctx(ID, pcr, e)
        s1 == Walk(b, work, 1, Start(rr, b, ID, work, pcr, TRUE), ctx)
        s2 == Require(s1, "hasUsername", b, ID, pcr.prefix \o "_username")
        s3 == Require(s2, "hasPassword", b, ID, pcr.prefix \o "_password")
        s4 == HTTPStage(s3, b, ctx, TRUE)
        s5 == ProcessArrays(b, s4, ID, ctx)
        s6 == ISOInfoStage(s5, b, VirtualBoxISO, work, ctx)
        s7 == BootCommandFile(s6, b, BuilderString(b), ctx)
        s8 == DefaultGuestOSType(s7)
        s9 == ISOTail(s8, b, ctx)
    IN Result(s9, work, pcr.prefix)

createVMWareISO(rr, e, ID) ==
    IF ID \notin DOMAIN rr.Builders THEN NotFound(rr, ID, VMWareISO)
    ELSE
    LET b == VMWareISO
        work == WorkSlice(rr, ID)
        pcr == processCommunicator(rr, ID, work, TypeSetting(b))
        ctx == Ctx(ID, pcr, e)
        s1 == Walk(b, work, 1, Start(rr, b, ID, work, pcr, FALSE), ctx)
        s2 == Require(s1, "hasUsername", b, ID, pcr.prefix \o "_username")
        s3 == HTTPStage(s2, b, ctx, FALSE)
        s4 == ProcessArrays(b, s3, ID, ctx)
        s5 == BootCommandFile(s4, b, BuilderString(b), ctx)
        s6 == ISOInfoStage(s5, b, VirtualBoxISO, work, ctx)
        s7 == SetGuestOSType(s6)
        s8 == ISOTail(s7, b, ctx)
    IN Result(s8, work, pcr.prefix)

----------------------------------------------------------------------------
\* The create functions of the other builders.

\* if !hasUsername { ... RequiredSettingErr{<name>} }, the name chosen from
\* the communicator prefix with a fallback for no communicator.
RequireUsername(st, b, ID, prefix, fallback) ==
    Require(st, "hasUsername", b, ID,
            IF prefix = "" THEN fallback ELSE prefix \o "_username")

createAmazonChroot(rr, e, ID) ==
    IF ID \notin DOMAIN rr.Builders THEN NotFound(rr, ID, AmazonChroot)
    ELSE
    LET b == AmazonChroot
        work == WorkSlice(rr, ID)
        pcr == processCommunicator(rr, ID, work, TypeSetting(b))
        ctx == Ctx(ID, pcr, e)
        s1 == Walk(b, work, 1, Start(rr, b, ID, work, pcr, FALSE), ctx)
        s2 == RequireKeys(s1, AmazonChrootRequired, 1, b, ID)
        s3 == ProcessArrays(b, s2, ID, ctx)
    IN Result(s3, work, pcr.prefix)

createAmazonEBS(rr, e, ID) ==
    IF ID \notin DOMAIN rr.Builders THEN NotFound(rr, ID, AmazonEBS)
    ELSE
    LET b == AmazonEBS
        work == WorkSlice(rr, ID)
        pcr == processCommunicator(rr, ID, work, TypeSetting(b))
        ctx == Ctx(ID, pcr, e)
        s1 == Walk(b, work, 1, Start(rr, b, ID, work, pcr, FALSE), ctx)
        s2 == RequireKeys(s1, AmazonEBSRequired, 1, b, ID)
        s3 == RequireUsername(s2, b, ID, pcr.prefix, "ssh_username")
        s4 == ProcessArrays(b, s3, ID, ctx)
    IN Result(s4, work, pcr.prefix)

createAmazonInstance(rr, e, ID) ==
    IF ID \notin DOMAIN rr.Builders THEN NotFound(rr, ID, AmazonInstance)
    ELSE
    LET b == AmazonInstance
        work == WorkSlice(rr, ID)
        pcr == processCommunicator(rr, ID, work, TypeSetting(b))
        ctx == Ctx(ID, pcr, e)
        s1 == Walk(b, work, 1, Start(rr, b, ID, work, pcr, FALSE), ctx)
        s2 == RequireKeys(s1, AmazonInstanceRequired, 1, b, ID)
        s3 == RequireUsername(s2, b, ID, pcr.prefix, "ssh_username")
        s4 == RequireKeys(s3, <<"x509_cert_path", "x509_key_path">>, 1, b, ID)
        s5 == ProcessArrays(b, s4, ID, ctx)
    IN Result(s5, work, pcr.prefix)

createDigitalOcean(rr, e, ID) ==
    IF ID \notin DOMAIN rr.Builders THEN NotFound(rr, ID, DigitalOcean)
    ELSE
    LET b == DigitalOcean
        work == WorkSlice(rr, ID)
        pcr == processCommunicator(rr, ID, work, TypeSetting(b))
        ctx == Ctx(ID, pcr, e)
        s1 == Walk(b, work, 1, Start(rr, b, ID, work, pcr, FALSE), ctx)
        s2 == RequireKeys(s1, DigitalOceanRequired, 1, b, ID)
    IN Result(s2, work, pcr.prefix)

createDocker(rr, e, ID) ==
    IF ID \notin DOMAIN rr.Builders THEN NotFound(rr, ID, Docker)
    ELSE
    LET b == Docker
        work == WorkSlice(rr, ID)
        pcr == processCommunicator(rr, ID, work, TypeSetting(b))
        ctx == Ctx(ID, pcr, e)
        s1 == Walk(b, work, 1, Start(rr, b, ID, work, pcr, FALSE), ctx)
        s2 == RequireBare(RequireBare(RequireBare(RequireBare(s1,
                  "has_commit", "commit"), "has_discard", "discard"),
                  "has_export_path", "export_path"), "has_image", "image")
        s3 == ProcessArrays(b, s2, ID, ctx)
        s4 == RunCommandFile(s3, ctx)
    IN Result(s4, work, pcr.prefix)

createGoogleCompute(rr, e, ID) ==
    IF ID \notin DOMAIN rr.Builders THEN NotFound(rr, ID, GoogleCompute)
    ELSE
    LET b == GoogleCompute
        work == WorkSlice(rr, ID)
        pcr == processCommunicator(rr, ID, work, TypeSetting(b))
        ctx == Ctx(ID, pcr, e)
        s1 == Walk(b, work, 1, Start(rr, b, ID, work, pcr, FALSE), ctx)
        s2 == RequireKeys(s1, GoogleComputeRequired, 1, b, ID)
        s3 == ProcessArrays(b, s2, ID, ctx)
    IN Result(s3, work, pcr.prefix)

\* The work list of createNull: without a common sibling it is read from
\* the component named "null", whatever the ID.
NullWorkSlice(rr, ID) ==
    IF BuilderString(Common) \in DOMAIN rr.Builders
    THEN mergeSettingsSlices(rr.Builders[BuilderString(Common)].Settings,
                             rr.Builders[ID].Settings)
    ELSE IF BuilderString(Null) \in DOMAIN rr.Builders
         THEN rr.Builders[BuilderString(Null)].Settings
    ELSE <<>>

createNull(rr, e, ID) ==
    IF ID \notin DOMAIN rr.Builders THEN NotFound(rr, ID, Null)
    ELSE
    LET b == Null
        work == NullWorkSlice(rr, ID)
        pcr == processCommunicator(rr, ID, work, TypeSetting(b))
        s1 == Start(rr, b, ID, work, pcr, FALSE)
        s2 == RequireAny(s1, {"hasCommunicator"}, b, ID, "communicator")
    IN Result(s2, work, pcr.prefix)

createOpenStack(rr, e, ID) ==
    IF ID \notin DOMAIN rr.Builders THEN NotFound(rr, ID, OpenStack)
    ELSE
    LET b == OpenStack
        work == WorkSlice(rr, ID)
        pcr == processCommunicator(rr, ID, work, TypeSetting(b))
        ctx == Ctx(ID, pcr, e)
        s1 == Walk(b, work, 1, Start(rr, b, ID, work, pcr, TRUE), ctx)
        s2 == RequireKeys(s1, OpenStackRequired, 1, b, ID)
        s3 == Require(s2, "hasPassword", b, ID,
                      IF pcr.prefix = "" THEN "password" ELSE pcr.prefix \o "_password")
        s4 == RequireUsername(s3, b, ID, pcr.prefix, "username")
        s5 == ProcessArrays(b, s4, ID, ctx)
    IN Result(s5, work, pcr.prefix)

createParallelsPVM(rr, e, ID) ==
    IF ID \notin DOMAIN rr.Builders THEN NotFound(rr, ID, ParallelsPVM)
    ELSE
    LET b == ParallelsPVM
        work == WorkSlice(rr, ID)
        pcr == processCommunicator(rr, ID, work, TypeSetting(b))
        ctx == Ctx(ID, pcr, e)
        s1 == Walk(b, work, 1, Start(rr, b, ID, work, pcr, FALSE), ctx)
        s2 == Require(s1, "hasSourcePath", b, ID, "source_path")
        s3 == RequireAny(s2, {"disableParallelsToolsMode", "hasParallelsToolsFlavor"},
                         b, ID, "parallels_tools_flavor")
        s4 == RequireUsername(s3, b, ID, pcr.prefix, "ssh_username")
        s5 == ProcessArrays(b, s4, ID, ctx)
        s6 == BootCommandFile(s5, b, BuilderString(ParallelsISO), ctx)
    IN Result(s6, work, pcr.prefix)

createVirtualBoxOVF(rr, e, ID) ==
    IF ID \notin DOMAIN rr.Builders THEN NotFound(rr, ID, VirtualBoxOVF)
    ELSE
    LET b == VirtualBoxOVF
        work == WorkSlice(rr, ID)
        pcr == processCommunicator(rr, ID, work, TypeSetting(b))
        ctx == Ctx(ID, pcr, e)
        s1 == Walk(b, work, 1, Start(rr, b, ID, work, pcr, FALSE), ctx)
        s2 == RequireUsername(s1, b, ID, pcr.prefix, "ssh_username")
        s3 == Require(s2, "hasSourcePath", b, ID, "source_path")
        s4 == HTTPStage(s3, b, ctx, TRUE)
        s5 == ProcessArrays(b, s4, ID, ctx)
        s6 == BootCommandFile(s5, b, BuilderString(b), ctx)
    IN Result(s6, work, pcr.prefix)

createVMWareVMX(rr, e, ID) ==
    IF ID \notin DOMAIN rr.Builders THEN NotFound(rr, ID, VMWareVMX)
    ELSE
    LET b == VMWareVMX
        work == WorkSlice(rr, ID)
        pcr == processCommunicator(rr, ID, work, TypeSetting(b))
        ctx == Ctx(ID, pcr, e)
        s1 == Walk(b, work, 1, Start(rr, b, ID, work, pcr, FALSE), ctx)
        s2 == Require(s1, "hasUsername", b, ID, "ssh_username")
        s3 == Require(s2, "hasSourcePath", b, ID, "source_path")
        s4 == HTTPStage(s3, b, ctx, TRUE)
        s5 == ProcessArrays(b, s4, ID, ctx)
        s6 == BootCommandFile(s5, b, BuilderString(VMWareISO), ctx)
    IN Result(s6, work, pcr.prefix)

\* The create function createBuilders' switch selects for a kind.
create(typ, rr, e, ID) ==
    CASE typ = AmazonChroot -> createAmazonChroot(rr, e, ID)
      [] typ = AmazonEBS -> createAmazonEBS(rr, e, ID)
      [] typ = AmazonInstance -> createAmazonInstance(rr, e, ID)
      [] typ = DigitalOcean -> createDigitalOcean(rr, e, ID)
      [] typ = Docker -> createDocker(rr, e, ID)
      [] typ = GoogleCompute -> createGoogleCompute(rr, e, ID)
      [] typ = Null -> createNull(rr, e, ID)
      [] typ = OpenStack -> createOpenStack(rr, e, ID)
      [] typ = ParallelsISO -> createParallelsISO(rr, e, ID)
      [] typ = ParallelsPVM -> createParallelsPVM(rr, e, ID)
      [] typ = QEMU -> createQEMU(rr, e, ID)
      [] typ = VirtualBoxISO -> createVirtualBoxISO(rr, e, ID)
      [] typ = VirtualBoxOVF -> createVirtualBoxOVF(rr, e, ID)
      [] typ = VMWareISO -> createVMWareISO(rr, e, ID)
      [] typ = VMWareVMX -> createVMWareVMX(rr, e, ID)

----------------------------------------------------------------------------
\* updateBuilders.

mergeKeysFromComponentMaps(old, new) == SeqOfSet((DOMAIN old) \cup (DOMAIN new))

\* BuilderC.mergeSettings and BuilderC.mergeArrays.
mergeSettings(b, new) == [b EXCEPT !.Settings = mergeSettingsSlices(b.Settings, new)]

mergeArrays(b, new) ==
    [b EXCEPT !.Arrays = [n \in (DOMAIN b.Arrays) \cup (DOMAIN new) |->
                             IF n \in DOMAIN new THEN new[n] ELSE b.Arrays[n]]]

\* updateCommon returns the template's builders: new's common is added when
\* the template has none, otherwise the template's common is merged with
\* its own settings.
updateCommon(bs, newB) ==
    IF BuilderString(Common) \notin DOMAIN bs
    THEN Put(bs, BuilderString(Common), newB)
    ELSE Put(bs, BuilderString(Common),
             mergeSettings(bs[BuilderString(Common)], bs[BuilderString(Common)].Settings))

RECURSIVE UpdateLoop(_, _, _, _)
\* Variant of UpdateLoop that replaces a component by new's instead of
\* merging them.
UpdateLoopMutant(bs, newB, keys, i) ==
    [v \in (DOMAIN bs) \cup (DOMAIN newB) |-> IF v \in DOMAIN newB THEN newB[v] ELSE bs[v]]

\* for _, v := range keys: a component only new has is copied, one new
\* lacks is left alone, one both have is merged.
UpdateLoop(bs, newB, keys, i) ==
    IF i > Len(keys) THEN bs
    ELSE IF keys[i] \notin DOMAIN bs
         THEN UpdateLoop(Put(bs, keys[i], newB[keys[i]]), newB, keys, i + 1)
    ELSE IF keys[i] \notin DOMAIN newB
         THEN UpdateLoop(bs, newB, keys, i + 1)
    ELSE UpdateLoop(Put(bs, keys[i],
                        mergeArrays(mergeSettings(bs[keys[i]], newB[keys[i]].Settings),
                                    newB[keys[i]].Arrays)),
                    newB, keys, i + 1)

\* Whether updateBuilders writes to a nil map: r.Builders[v] = bb.Copy()
\* when r.Builders was never made, which only updateCommon does.
NilMapWrite(rr, newB) ==
    rr.NilBuilders /\ DOMAIN newB # {} /\ BuilderString(Common) \notin DOMAIN newB

\* The template after updateBuilders returns; a call that panics leaves it
\* as it was.
updateBuilders(rr, newB) ==
    IF DOMAIN newB = {} \/ NilMapWrite(rr, newB) THEN rr
    ELSE LET keys == mergeKeysFromComponentMaps(rr.Builders, newB)
             bs == IF BuilderString(Common) \in DOMAIN newB
                   THEN updateCommon(rr.Builders, newB[BuilderString(Common)])
                   ELSE rr.Builders
         IN [rr EXCEPT !.Builders = UpdateLoop(bs, newB, keys, 1), !.NilBuilders = FALSE]

----------------------------------------------------------------------------
\* createBuilders, one loop iteration at a time.

NoBuilder == EmptyMap

\* Variant of Iteration that emits an object for a component of kind common.
IterationMutant(rr, e, ID) ==
    IF ID \notin DOMAIN rr.Builders
    THEN [found |-> FALSE, typ |-> UnsupportedBuilder,
          res |-> NotFound(rr, ID, UnsupportedBuilder)]
    ELSE LET typ == ParseBuilder(rr.Builders[ID].Type) IN
         IF typ \in AmazonChroot..VMWareVMX
         THEN [found |-> TRUE, typ |-> typ, res |-> create(typ, rr, e, ID)]
         ELSE [found |-> TRUE, typ |-> typ,
               res |-> [settings |-> TypeSetting(typ), err |-> NoErr,
                        r |-> rr, work |-> rr.Builders[ID].Settings, prefix |-> ""]]

\* One iteration of the loop over r.BuilderIDs: [found, typ, res].
Iteration(rr, e, ID) ==
    IF ID \notin DOMAIN rr.Builders
    THEN [found |-> FALSE, typ |-> UnsupportedBuilder,
          res |-> NotFound(rr, ID, UnsupportedBuilder)]
    ELSE LET typ == ParseBuilder(rr.Builders[ID].Type) IN
         IF typ \in AmazonChroot..VMWareVMX
         THEN [found |-> TRUE, typ |-> typ, res |-> create(typ, rr, e, ID)]
         ELSE [found |-> TRUE, typ |-> typ,
               res |-> [settings |-> EmptyMap,
                        err |-> InvalidComponentErr("builder", rr.Builders[ID].Type),
                        r |-> rr, work |-> <<>>, prefix |-> ""]]

----------------------------------------------------------------------------
\* The templates and environments the model starts from.

Kinds == AmazonChroot..VMWareVMX

ISOKinds == {ParallelsISO, QEMU, VirtualBoxISO, VMWareISO}

Communicators == {"", "ssh", "winrm"}

\* The settings every kind requires, apart from the user's credentials.
BaseSettings(b) ==
    CASE b = AmazonChroot ->
            <<E("access_key", "AKIA"), E("ami_name", "ami"), E("secret_key", "secret"),
              E("source_ami", "ami-1")>>
      [] b = AmazonEBS ->
            <<E("access_key", "AKIA"), E("ami_name", "ami"), E("instance_type", "t2.micro"),
              E("region", "us-east-1"), E("secret_key", "secret"), E("source_ami", "ami-1")>>
      [] b = AmazonInstance ->
            <<E("access_key", "AKIA"), E("account_id", "0123"), E("ami_name", "ami"),
              E("instance_type", "t2.micro"), E("region", "us-east-1"),
              E("s3_bucket", "bucket"), E("secret_key", "secret"), E("source_ami", "ami-1"),
              E("x509_cert_path", "cert.pem"), E("x509_key_path", "key.pem")>>
      [] b = DigitalOcean ->
            <<E("api_token", "token"), E("image", "ubuntu"), E("region", "nyc3"),
              E("size", "512mb")>>
      [] b = Docker ->
            <<E("commit", "true"), E("discard", "false"), E("export_path", "export.tar"),
              E("image", "ubuntu")>>
      [] b = GoogleCompute ->
            <<E("project_id", "project"), E("source_image", "image"), E("zone", "us-central1-a")>>
      [] b = OpenStack ->
            <<E("flavor", "m1.small"), E("image_name", "image"), E("source_image", "src-image")>>
      [] b = ParallelsISO ->
            <<E("iso_url", "http://example.com/a.iso"), E("iso_checksum", "abc123"),
              E("iso_checksum_type", "sha256"), E("parallels_tools_flavor", "lin")>>
      [] b = ParallelsPVM ->
            <<E("source_path", "source.pvm"), E("parallels_tools_flavor", "lin")>>
      [] b \in {QEMU, VirtualBoxISO, VMWareISO} ->
            <<E("iso_url", "http://example.com/a.iso"), E("iso_checksum", "abc123"),
              E("iso_checksum_type", "sha256")>>
      [] b = VirtualBoxOVF -> <<E("source_path", "source.ova")>>
      [] b = VMWareVMX -> <<E("source_path", "source.vmx")>>
      [] OTHER -> <<>>

\* The credentials of a component, named after its communicator.
Credentials(b, comm) ==
    CASE comm # "" ->
            <<E("communicator", comm), E(comm \o "_username", "vagrant"),
              E(comm \o "_password", "vagrant")>>
      [] b = OpenStack -> <<E("username", "vagrant"), E("password", "vagrant")>>
      [] b \in {AmazonChroot, DigitalOcean, Docker, GoogleCompute, Null} -> <<>>
      [] OTHER -> <<E("ssh_username", "vagrant"), E("ssh_password", "vagrant")>>

Complete(b, comm) == BaseSettings(b) \o Credentials(b, comm)

\* A sequence without the entries at the positions in drop.
RECURSIVE Without(_, _, _)
Without(sl, drop, i) ==
    IF i > Len(sl) THEN <<>>
    ELSE (IF i \in drop THEN <<>> ELSE <<sl[i]>>) \o Without(sl, drop, i + 1)

Drops(sl) == {d \in SUBSET (1..Len(sl)) : Cardinality(d) <= MaxDrop}

\* An array setting: its Go type, whether its copy is nil, and its items.
ArrOf(kind, items) == [isnil |-> FALSE, kind |-> kind, items |-> items]

Arr(items) == ArrOf("[]string", items)

NoArrays == EmptyMap

Component(typ, settings, arrays) == [Type |-> typ, Settings |-> settings, Arrays |-> arrays]

\* The files the source directory holds, and the lines of its command files.
FullFS ==
    {<<"src", "http">>, <<"src", "source.pvm">>, <<"src", "source.ova">>,
     <<"src", "source.vmx">>, <<"src", "commands", "boot.command">>,
     <<"src", "commands", "empty.command">>}

CommandLines ==
    Put(Put(EmptyMap, <<"src", "commands", "boot.command">>,
            <<[body |-> "<esc>", cont |-> FALSE], [body |-> "auto", cont |-> FALSE]>>),
        <<"src", "commands", "empty.command">>, <<>>)

\* The hrefs a centos redirect page may hold, in page order.
Mirrors ==
    <<"http://mirror1.example.com/centos/7.8/isos/x86_64/",
      "http://mirror2.example.com/centos/7.8/isos/x86_64/",
      "http://mirror3.example.com/centos/7.8/isos/x86_64/",
      "http://mirror4.example.com/centos/7.8/isos/x86_64/",
      "http://mirror5.example.com/centos/7.8/isos/x86_64/">>

Env(net, fs) ==
    [net |-> net, fs |-> fs, lines |-> CommandLines, current |-> "7.8",
     index |-> "7.8.0/", stable |-> "7.8.0", lts |-> "14.04", point |-> "14.04.4",
     page |-> "ok", mirrors |-> SubSeq(Mirrors, 1, 2), pick |-> 0,
     checksum |-> "d1sc0v3r3d", search |-> 0]

Template(bs, ids, distro) ==
    [Builders |-> bs, NilBuilders |-> FALSE, BuilderIDs |-> ids, Distro |-> distro,
     Arch |-> IF distro = "centos" THEN "x86_64" ELSE "amd64",
     Release |-> IF distro = "ubuntu" THEN "14.04" ELSE "7",
     Image |-> "server", BaseURL |-> "http://releases.example.com/",
     OSType |-> "", ReleaseISO |-> NilISO, Dirs |-> EmptyMap, Files |-> EmptyMap,
     IsExample |-> FALSE, VarVals |-> Put(EmptyMap, ":name", "feedlot"),
     TemplateOutputDir |-> "out", IncludeComponentString |-> TRUE,
     SourceDir |-> "src", BuildName |-> "build"]

\* The ID lists of a template: up to MaxIDs of the given identifiers.
IDLists(ids) == UNION {[1..n -> ids] : n \in 1..MaxIDs}

\* Nothing was updated yet.
NoUpdate == [old |-> EmptyMap, new |-> EmptyMap, err |-> NoErr]

\* No build command is running.
NoRun == [pc |-> "none"]

Started(t, e) ==
    /\ r = t
    /\ env = e
    /\ pc = "ready"
    /\ ndx = 0
    /\ bldrs = <<>>
    /\ err = NoErr
    /\ upd = NoUpdate
    /\ hist = <<>>
    /\ run = NoRun

\* A second component that always synthesizes.
Companion == Component(BuilderString(DigitalOcean), Complete(DigitalOcean, ""), NoArrays)

TypeNames == {BuilderString(b) : b \in Common..VMWareVMX} \cup {"VirtualBox-ISO", "QEMU", "bogus"}

\* Builders of a template: the component b1, its companion b2 and, when
\* withCommon, a common sibling.
BuildersOf(b1, withCommon, commonSettings) ==
    LET bs == Put(Put(EmptyMap, "b1", b1), "b2", Companion) IN
    IF withCommon
    THEN Put(bs, BuilderString(Common),
             Component(BuilderString(Common), commonSettings, NoArrays))
    ELSE bs

\* Templates of every kind, with and without a common sibling, their
\* settings complete or short of up to MaxDrop entries.
InitKinds ==
    \E ids \in IDLists({"b1", "b2", BuilderString(Common), "missing"}) :
       \/ \E typ \in TypeNames, comm \in Communicators, withCommon \in BOOLEAN :
             \E drop \in Drops(Complete(ParseBuilder(typ), comm)) :
                Started(Template(BuildersOf(Component(typ,
                                                      Without(Complete(ParseBuilder(typ), comm),
                                                              drop, 1),
                                                      NoArrays),
                                            withCommon, <<E("boot_wait", "5s")>>),
                                 ids, "ubuntu"),
                        Env("up", FullFS))
       \/ Started(Template(EmptyMap, ids, "ubuntu"), Env("up", FullFS))

ISOExtras ==
    {<<>>, <<E("iso_checksum_url", "http://example.com/SUMS")>>,
     <<E("guest_os_type", "custom")>>, <<E("boot_command", "boot.command")>>}

ISOArrays ==
    {NoArrays, Put(EmptyMap, "iso_urls", Arr(<<"http://example.com/b.iso">>)),
     Put(EmptyMap, "boot_command", Arr(<<"<wait>">>))}

\* Templates of the ISO builders: settings short of up to MaxDrop entries,
\* with the network up or down.
InitISO ==
    \E b \in ISOKinds, comm \in {"", "winrm"}, extra \in ISOExtras, arrays \in ISOArrays,
       withCommon \in BOOLEAN, net \in {"up", "down"}, distro \in {"ubuntu", "centos"} :
       \E drop \in Drops(Complete(b, comm)) :
          Started(Template(BuildersOf(Component(BuilderString(b),
                                                Without(Complete(b, comm), drop, 1) \o extra,
                                                arrays),
                                      withCommon, <<E("iso_checksum", "c0mm0n")>>),
                           <<"b1">>, distro),
                  Env(net, FullFS))

\* The entries of a merged sequence: k1 with the holder's own value, k2,
\* unset markers, and the reserved guest_os_type.
MergeEntries(own) ==
    {E("k1", own), E("k1", ""), E("k2", "c"),
     E("guest_os_type", "custom"), E("guest_os_type", "")}

\* Settings sequences of up to MaxLen entries, one entry per key.
SettingSeqs(own) ==
    {sl \in UNION {[1..n -> MergeEntries(own)] : n \in 0..MaxLen} :
        \A i, j \in 1..Len(sl) : sl[i].k = sl[j].k => i = j}

\* Templates of every kind whose common sibling and component hold any two
\* settings sequences, the component's followed by what its kind requires.
InitMerge ==
    \E A \in SettingSeqs("a"), B \in SettingSeqs("b"), b \in Kinds :
       Started(Template(BuildersOf(Component(BuilderString(b), B \o Complete(b, "ssh"),
                                             NoArrays),
                                   TRUE, A),
                        <<"b1">>, "ubuntu"),
               Env("up", FullFS))

----------------------------------------------------------------------------
\* Actions.

\* The builders a named build may bring: new settings for b1 with unset
\* markers, a common section with a new component, or nothing.
UpdatePool(rr) ==
    {Put(EmptyMap, "b1",
         Component(IF "b1" \in DOMAIN rr.Builders THEN rr.Builders["b1"].Type
                   ELSE BuilderString(Null),
                   <<E("k1", ""), E("guest_os_type", ""), E("k2", "new"),
                     E("ssh_username", "")>>,
                   Put(EmptyMap, "floppy_files", Arr(<<"disk1">>)))),
     Put(Put(EmptyMap, BuilderString(Common),
             Component(BuilderString(Common), <<E("k1", "new"), E("boot_wait", "")>>,
                       NoArrays)),
         "b3", Companion),
     EmptyMap}

UpdateBuilders ==
    /\ pc = "ready"
    /\ \E newB \in UpdatePool(r) :
          /\ r' = updateBuilders(r, newB)
          /\ upd' = [old |-> r.Builders, new |-> newB,
                     err |-> IF NilMapWrite(r, newB)
                             THEN Panic("assignment to entry in nil map") ELSE NoErr]
          /\ pc' = IF NilMapWrite(r, newB) THEN "panic" ELSE "updated"
    /\ UNCHANGED <<env, ndx, bldrs, err, hist, run>>

\* if r.BuilderIDs == nil || len(r.BuilderIDs) <= 0 { return nil, ... };
\* bldrs = make([]interface{}, len(r.BuilderIDs))
CreateBuildersStart ==
    /\ pc \in {"ready", "updated"}
    /\ IF Len(r.BuilderIDs) = 0
       THEN /\ pc' = "done"
            /\ err' = BuilderErr("", UnsupportedBuilder, PlainErr("no builders specified"))
            /\ bldrs' = <<>>
       ELSE /\ pc' = "loop"
            /\ err' = NoErr
            /\ bldrs' = [i \in 1..Len(r.BuilderIDs) |-> NoBuilder]
    /\ ndx' = 0
    /\ UNCHANGED <<r, env, upd, hist, run>>

\* The body of the loop for the component ID, given its iteration it: a
\* failure ends the call with the error and no builders, a success stores
\* the settings at slot and advances ndx.
LoopBody(ID, it, slot) ==
    /\ hist' = Append(hist, [ID |-> ID, found |-> it.found, typ |-> it.typ,
                             r0 |-> r, res |-> it.res])
    /\ r' = it.res.r
    /\ IF it.res.err # NoErr
       THEN /\ bldrs' = <<>>
            /\ err' = it.res.err
            /\ pc' = IF it.res.err.typ = "panic" THEN "panic" ELSE "done"
            /\ ndx' = ndx
       ELSE /\ bldrs' = [bldrs EXCEPT ![slot] = it.res.settings]
            /\ ndx' = ndx + 1
            /\ UNCHANGED <<err, pc>>

\* Variant of CreateBuildersStep that fills bldrs from its end.
CreateBuildersStepMutant ==
    /\ pc = "loop"
    /\ ndx < Len(r.BuilderIDs)
    /\ LoopBody(r.BuilderIDs[ndx + 1], Iteration(r, env, r.BuilderIDs[ndx + 1]),
                Len(r.BuilderIDs) - ndx)
    /\ UNCHANGED <<env, upd, run>>

\* One iteration of for _, ID := range r.BuilderIDs: a failure returns
\* nil builders and the error, a success stores the object at ndx.
CreateBuildersStep ==
    /\ pc = "loop"
    /\ ndx < Len(r.BuilderIDs)
    /\ LoopBody(r.BuilderIDs[ndx + 1], Iteration(r, env, r.BuilderIDs[ndx + 1]), ndx + 1)
    /\ UNCHANGED <<env, upd, run>>

\* return bldrs, nil
CreateBuildersReturn ==
    /\ pc = "loop"
    /\ ndx = Len(r.BuilderIDs)
    /\ pc' = "done"
    /\ UNCHANGED <<r, env, ndx, bldrs, err, upd, hist, run>>

Next ==
    \/ UpdateBuilders
    \/ CreateBuildersStart
    \/ CreateBuildersStep
    \/ CreateBuildersReturn

\* Builder synthesis over every kind.
Spec == InitKinds /\ [][Next]_vars

\* Builder synthesis of the ISO builders.
SpecISO == InitISO /\ [][Next]_vars

\* Builder synthesis over merged settings sequences.
SpecMerge == InitMerge /\ [][Next]_vars

----------------------------------------------------------------------------
\* Templates with an integer key.

\* The keys a kind's key walk hands to strconv.Atoi.
IntKeys(b) ==
    CASE b = AmazonChroot -> {"root_volume_size"}
      [] b = GoogleCompute -> {"disk_size"}
      [] b \in {ParallelsISO, QEMU} -> {"disk_size", "http_port_max", "http_port_min"}
      [] b = VirtualBoxISO ->
            {"disk_size", "http_port_max", "http_port_min", "ssh_host_port_max",
             "ssh_host_port_min"}
      [] b = VirtualBoxOVF ->
            {"http_port_max", "http_port_min", "ssh_host_port_max", "ssh_host_port_min"}
      [] b = VMWareISO ->
            {"disk_size", "http_port_max", "http_port_min", "vnc_port_max", "vnc_port_min"}
      [] b = VMWareVMX -> {"http_port_max", "http_port_min", "vnc_port_max", "vnc_port_min"}
      [] OTHER -> {}

IntValues == {"20000", "8080", "abc", ""}

\* Templates of every kind with an integer key: the complete settings of
\* the kind followed by one integer key whose value parses or does not.
InitInts ==
    \E b \in Kinds, comm \in Communicators, withCommon \in BOOLEAN,
       ids \in IDLists({"b1", "b2"}) :
       \E k \in IntKeys(b), v \in IntValues :
          Started(Template(BuildersOf(Component(BuilderString(b),
                                                Complete(b, comm) \o <<E(k, v)>>, NoArrays),
                                      withCommon, <<E("boot_wait", "5s")>>),
                           ids, "ubuntu"),
                  Env("up", FullFS))

\* Builder synthesis over integer keys.
SpecInts == InitInts /\ [][Next]_vars

\* The kinds that record a source in the template's ledgers: user_data_file,
\* source_path, or the http directory.
FileKinds == {AmazonEBS, AmazonInstance, ParallelsPVM, VirtualBoxOVF, VMWareVMX,
              QEMU, VirtualBoxISO}

\* The settings of a component of a file kind.
FileSettings(b) ==
    Complete(b, "ssh")
       \o (IF b \in {AmazonEBS, AmazonInstance} THEN <<E("user_data_file", "user.data")>>
           ELSE <<>>)

\* Source trees: the shared files only, or component directories as well.
FileSystems ==
    {FullFS \cup {<<"src", "user.data">>},
     FullFS \cup {<<"src", "user.data">>, <<"src", "qemu", "http">>,
                  <<"src", "virtualbox-iso", "http">>,
                  <<"src", "virtualbox-ovf", "http">>,
                  <<"src", "amazon-ebs", "user.data">>}}

\* Templates with two components of the file kinds, in and out of example
\* mode, with and without the component subdirectory.
InitFiles ==
    \E b1 \in FileKinds, b2 \in FileKinds, ex \in BOOLEAN, inc \in BOOLEAN,
       fs \in FileSystems, ids \in IDLists({"b1", "b2"}) :
       Started([Template(Put(Put(EmptyMap, "b1",
                                 Component(BuilderString(b1), FileSettings(b1), NoArrays)),
                             "b2", Component(BuilderString(b2), FileSettings(b2), NoArrays)),
                         ids, "ubuntu")
                   EXCEPT !.IsExample = ex, !.IncludeComponentString = inc],
               Env("up", fs))

SpecFiles == InitFiles /\ [][Next]_vars

\* The most candidates of a search that exist together.
MaxFiles == 2

\* Every place the search for user.data of an amazon-ebs component looks in.
SearchPlaces(distro) ==
    LET cands == Candidates(Template(EmptyMap, <<>>, distro), <<"user.data">>,
                            BuilderString(AmazonEBS))
    IN {cands[i].path : i \in 1..Len(cands)}

\* How many of the places in S the search for user.data may meet first.
Choices(distro, S) ==
    IF S = {} THEN 1
    ELSE Cardinality(Earliest(Candidates(Template(EmptyMap, <<>>, distro), <<"user.data">>,
                                         BuilderString(AmazonEBS)), S))

\* The subsets of S with at most n elements.
RECURSIVE UpTo(_, _)
UpTo(S, n) ==
    IF n = 0 THEN {{}}
    ELSE UpTo(S, n - 1) \cup {T \cup {x} : T \in UpTo(S, n - 1), x \in S}

\* Templates with an amazon-ebs component that names a user data file, over
\* source trees in which up to MaxFiles of the places searched hold it (one
\* in example mode, where nothing is searched), the search meeting any of
\* the earliest of them first.
InitFind ==
    \E distro \in {"ubuntu", "centos"}, ex \in BOOLEAN, ids \in {<<"b1">>, <<"b2", "b1">>} :
       \E S \in UpTo(SearchPlaces(distro), IF ex THEN 1 ELSE MaxFiles) :
          \E first \in 0..(Choices(distro, S) - 1) :
             Started([Template(BuildersOf(Component(BuilderString(AmazonEBS),
                                                    FileSettings(AmazonEBS), NoArrays),
                                          FALSE, <<>>),
                               ids, distro)
                         EXCEPT !.IsExample = ex],
                     [Env("up", FullFS \cup S) EXCEPT !.search = first])

SpecFind == InitFind /\ [][Next]_vars

\* The most hrefs of a redirect page.
MaxMirrors == 3

\* The settings of an ISO builder that leaves its ISO to discovery, with or
\* without the checksum type.
DiscoverySettings(b, withType) ==
    LET Kept(x) == x.k \notin {"iso_url", "iso_checksum"}
                   /\ (withType \/ x.k # "iso_checksum_type")
    IN SelectSeq(Complete(b, "ssh"), Kept)

\* The first href of the index page of the debian base URL: the current
\* release as a directory, of four, six and seven characters.
IndexHrefs == {"7.8/", "7.8.0/", "7.8.10/"}

\* The checksum pages: see PageNames.
PageKinds == {"ok", "empty", "unlisted", "point", "other", "noparse", "first"}

\* Templates of the builders that discover their ISO, over every distro,
\* with the architecture, the release and the base URL given or empty, the
\* network up or down, the pages of every kind, for debian the index page
\* and the release its checksum page lists, and for centos a redirect page of up to MaxMirrors hrefs.
InitRelease ==
    \E b \in {VirtualBoxISO, VMWareISO}, distro \in SupportedDistros,
       noArch \in BOOLEAN, release \in {"", "7", "7.8", "14.04"},
       base \in {"", "http://releases.example.com/"}, net \in {"up", "down"},
       page \in PageKinds, withType \in BOOLEAN :
       \E n \in IF distro = "centos" THEN 0..MaxMirrors ELSE {2},
          pick \in IF distro = "centos" THEN 0..(MaxMirrors - 1) ELSE {0},
          index \in IF distro = "debian" THEN IndexHrefs ELSE {"7.8.0/"},
          stable \in IF distro = "debian" THEN {"7.8", "7.8.0"} ELSE {"7.8.0"} :
          Started([Template(BuildersOf(Component(BuilderString(b),
                                                 DiscoverySettings(b, withType), NoArrays),
                                       FALSE, <<>>),
                            <<"b1">>, distro)
                      EXCEPT !.Arch = IF noArch THEN "" ELSE @,
                             !.Release = release, !.BaseURL = base],
                  [Env(net, FullFS) EXCEPT !.page = page, !.mirrors = SubSeq(Mirrors, 1, n),
                                           !.pick = pick, !.index = index,
                                           !.stable = stable])

SpecRelease == InitRelease /\ [][Next]_vars

\* The most lines of a command file.
MaxLines == 3

\* The lines of a command file: a body with or without a trailing
\* backslash, or a backslash alone.
FileLines ==
    {[body |-> "halt", cont |-> TRUE], [body |-> "halt", cont |-> FALSE],
     [body |-> "-p", cont |-> TRUE], [body |-> "-p", cont |-> FALSE],
     [body |-> "", cont |-> TRUE]}

\* The builders whose shutdown_command may name a command file.
CommandKinds == {VirtualBoxISO, VirtualBoxOVF, VMWareVMX}

\* Templates whose component takes its shutdown command from a command file
\* of up to MaxLines lines.
InitCommands ==
    \E b \in CommandKinds, ids \in {<<"b1">>, <<"b1", "b2">>, <<"b2", "b1">>},
       lines \in UNION {[1..n -> FileLines] : n \in 0..MaxLines} :
       Started(Template(BuildersOf(Component(BuilderString(b),
                                             Complete(b, "ssh")
                                                \o <<E("shutdown_command", "shutdown.command")>>,
                                             NoArrays),
                                   FALSE, <<>>),
                        ids, "ubuntu"),
               [Env("up", FullFS \cup {<<"src", "commands", "shutdown.command">>})
                   EXCEPT !.lines = Put(@, <<"src", "commands", "shutdown.command">>, lines)])

SpecCommands == InitCommands /\ [][Next]_vars

MaxRows == 2

\* The entries of a vboxmanage array: keys with and without the leading
\* dashes, values literal, variable and absent.
VBoxItems ==
    {E("memory", "4096"), E("--memory", "4096"), E("cpus", ":name"),
     E("--cpus", ""), E("-vram", "32")}

VBoxKinds == {VirtualBoxISO, VirtualBoxOVF}

\* Templates of the virtualbox builders whose component has a vboxmanage or
\* vboxmanage_post array of up to MaxRows entries.
InitVBox ==
    \E b \in VBoxKinds, ids \in {<<"b1">>, <<"b1", "b2">>, <<"b2", "b1">>},
       name \in {"vboxmanage", "vboxmanage_post"},
       items \in UNION {[1..n -> VBoxItems] : n \in 0..MaxRows} :
       Started(Template(BuildersOf(Component(BuilderString(b), Complete(b, "ssh"),
                                             Put(EmptyMap, name, Arr(items))),
                                   FALSE, <<>>),
                        ids, "ubuntu"),
               Env("up", FullFS))

SpecVBox == InitVBox /\ [][Next]_vars

----------------------------------------------------------------------------
\* The build command: realMain and BuildCommand.Run.  run is
\* [pc, envOK, parseOK, infOK, distro, builds, fails, attempted, failed,
\* status]: whether the environment, the arguments and the supported-distro
\* information are good, whether -distro was given, the named builds, the
\* builds that fail when synthesized, the builds attempted and failed so
\* far, and the exit status.

MaxBuilds == 2

BuildNames == {"build1", "build2", "build3"}

\* The build -distro asks for.
DistroBuild == "-distro"

Exit(status) == [run EXCEPT !.pc = "returned", !.status = status]

Attempt(rn, name) ==
    [rn EXCEPT !.attempted = @ \cup {name},
               !.failed = IF name \in rn.fails THEN @ \cup {name} ELSE @]

\* err := ranchr.SetEnv(); if err != nil { return -1 }
RunSetEnv ==
    /\ run.pc = "main"
    /\ run' = IF run.envOK THEN [run EXCEPT !.pc = "parse"] ELSE Exit(-1)
    /\ UNCHANGED <<r, env, pc, ndx, bldrs, err, upd, hist>>

\* if err := cmdFlags.Parse(args); err != nil { return 1 }
RunParse ==
    /\ run.pc = "parse"
    /\ run' = IF run.parseOK THEN [run EXCEPT !.pc = "load"] ELSE Exit(1)
    /\ UNCHANGED <<r, env, pc, ndx, bldrs, err, upd, hist>>

\* s, dd, err := ranchr.DistrosInf(); if err != nil { return 1 }
RunDistrosInf ==
    /\ run.pc = "load"
    /\ run' = IF run.infOK THEN [run EXCEPT !.pc = "distro"] ELSE Exit(1)
    /\ UNCHANGED <<r, env, pc, ndx, bldrs, err, upd, hist>>

\* if distroFilter != "" { if err := ranchr.BuildPackerTemplateFromDistro(
\* s, dd, args); err != nil { return 1 } }
RunDistro ==
    /\ run.pc = "distro"
    /\ run' = IF ~run.distro THEN [run EXCEPT !.pc = "named"]
              ELSE IF DistroBuild \in run.fails
                   THEN [Attempt(run, DistroBuild) EXCEPT !.pc = "returned", !.status = 1]
              ELSE [Attempt(run, DistroBuild) EXCEPT !.pc = "named"]
    /\ UNCHANGED <<r, env, pc, ndx, bldrs, err, upd, hist>>

\* if len(bldArgs) > 0 { ... BuildPackerTemplateFromNamedBuild(s, dd,
\* bldArgs...) } else return 0
RunNamed ==
    /\ run.pc = "named"
    /\ run' = IF Len(run.builds) > 0 THEN [run EXCEPT !.pc = "tasks"] ELSE Exit(0)
    /\ UNCHANGED <<r, env, pc, ndx, bldrs, err, upd, hist>>

\* One task of BuildPackerTemplateFromNamedBuild: a named build is
\* synthesized, whatever became of its peers.
RunTask ==
    /\ run.pc = "tasks"
    /\ \E i \in 1..Len(run.builds) :
          /\ run.builds[i] \notin run.attempted
          /\ run' = Attempt(run, run.builds[i])
    /\ UNCHANGED <<r, env, pc, ndx, bldrs, err, upd, hist>>

\* The results are collected: if err := ...; err != nil { return 1 };
\* return 0
RunCollect ==
    /\ run.pc = "tasks"
    /\ \A i \in 1..Len(run.builds) : run.builds[i] \in run.attempted
    /\ run' = IF \E i \in 1..Len(run.builds) : run.builds[i] \in run.failed
              THEN Exit(1) ELSE Exit(0)
    /\ UNCHANGED <<r, env, pc, ndx, bldrs, err, upd, hist>>

NextRun ==
    \/ RunSetEnv
    \/ RunParse
    \/ RunDistrosInf
    \/ RunDistro
    \/ RunNamed
    \/ RunTask
    \/ RunCollect

\* Runs of the build command with or without -distro and with up to
\* MaxBuilds named builds, any of which may fail.
InitRun ==
    \E envOK \in BOOLEAN, parseOK \in BOOLEAN, infOK \in BOOLEAN, distro \in BOOLEAN,
       n \in 0..MaxBuilds, fails \in SUBSET (BuildNames \cup {DistroBuild}) :
       \E bs \in [1..n -> BuildNames] :
          /\ \A i, j \in 1..n : bs[i] = bs[j] => i = j
          /\ r = Template(EmptyMap, <<>>, "ubuntu")
          /\ env = Env("up", FullFS)
          /\ pc = "ready"
          /\ ndx = 0
          /\ bldrs = <<>>
          /\ err = NoErr
          /\ upd = NoUpdate
          /\ hist = <<>>
          /\ run = [pc |-> "main", envOK |-> envOK, parseOK |-> parseOK, infOK |-> infOK,
                    distro |-> distro, builds |-> bs, fails |-> fails,
                    attempted |-> {}, failed |-> {}, status |-> 0]

SpecRun == InitRun /\ [][NextRun]_vars

\* The builders of a template before an update: never made (nil), made and
\* empty, a component with a companion, or those with a common sibling.
UpdateShapes == {"nil", "empty", "own", "common"}

ShapedTemplate(shape, b, A, ids) ==
    CASE shape = "nil" -> [Template(EmptyMap, ids, "ubuntu") EXCEPT !.NilBuilders = TRUE]
      [] shape = "empty" -> Template(EmptyMap, ids, "ubuntu")
      [] OTHER -> Template(BuildersOf(Component(BuilderString(b), A \o Complete(b, "ssh"),
                                                NoArrays),
                                      shape = "common", A),
                           ids, "ubuntu")

\* Templates of every shape, their settings any sequence of up to MaxLen
\* entries, before updateBuilders.
InitUpdate ==
    \E shape \in UpdateShapes, b \in {Docker, Null, VirtualBoxOVF}, A \in SettingSeqs("a"),
       ids \in {<<"b1">>, <<"b3", "b1">>, <<"b2", "b3">>} :
       Started(ShapedTemplate(shape, b, A, ids), Env("up", FullFS))

SpecUpdate == InitUpdate /\ [][Next]_vars

\* The values a boolean setting is given.
BoolStrings == {"true", "True", "TRUE", "t", "T", "1", "tRuE", "false", "0", "yes"}

\* Boolean settings, each with a kind that has it.
BoolSettings ==
    {<<QEMU, "headless">>, <<QEMU, "disk_compression">>, <<VirtualBoxISO, "headless">>,
     <<VMWareISO, "skip_compaction">>, <<ParallelsISO, "skip_compaction">>,
     <<DigitalOcean, "private_networking">>}

\* Templates whose component gives one boolean setting one of BoolStrings.
InitBools ==
    \E bk \in BoolSettings, v \in BoolStrings,
       ids \in {<<"b1">>, <<"b1", "b2">>, <<"b2", "b1">>} :
       Started(Template(BuildersOf(Component(BuilderString(bk[1]),
                                             Complete(bk[1], "ssh") \o <<E(bk[2], v)>>,
                                             NoArrays),
                                   FALSE, <<>>),
                        ids, "ubuntu"),
               Env("up", FullFS))

SpecBools == InitBools /\ [][Next]_vars

\* The values a command setting is given: names of command files, names
\* that only resemble them, and literal commands.
CommandNames ==
    {"boot.command", "empty.command", ".command", "a..command", "run.mycommand",
     "boot.command.bak", "command", "halt"}

\* Templates whose component gives shutdown_command one of CommandNames.
InitNames ==
    \E b \in CommandKinds, v \in CommandNames,
       ids \in {<<"b1">>, <<"b1", "b2">>, <<"b2", "b1">>} :
       Started(Template(BuildersOf(Component(BuilderString(b),
                                             Complete(b, "ssh")
                                                \o <<E("shutdown_command", v)>>,
                                             NoArrays),
                                   FALSE, <<>>),
                        ids, "ubuntu"),
               Env("up", FullFS))

SpecNames == InitNames /\ [][Next]_vars

\* The builders whose boot_command may name a command file.
BootKinds ==
    {ParallelsISO, ParallelsPVM, QEMU, VirtualBoxISO, VirtualBoxOVF, VMWareISO,
     VMWareVMX}

\* The arrays a component with a boot command file may hold besides.
BootArrays ==
    {NoArrays,
     Put(EmptyMap, "floppy_files", Arr(<<"disk1">>)),
     Put(EmptyMap, "export_opts", Arr(<<"--manifest">>)),
     Put(EmptyMap, "import_flags", Arr(<<"--eula-accept">>)),
     Put(EmptyMap, "boot_command", Arr(<<"<wait>">>)),
     Put(Put(EmptyMap, "boot_command", Arr(<<"<wait>">>)),
         "floppy_files", Arr(<<"disk1">>))}

\* A command file kept in the directory of one builder kind.
KindBootFile(b) == <<"src", BuilderString(b), "commands", "boot.command">>

KindBootLines == <<[body |-> "<enter>", cont |-> FALSE]>>

\* Templates whose component names boot.command as its boot_command, with
\* the command file kept for all kinds or for the component's kind as well.
InitBoot ==
    \E b \in BootKinds, A \in BootArrays, own \in BOOLEAN,
       ids \in {<<"b1">>, <<"b1", "b2">>, <<"b2", "b1">>} :
       Started(Template(BuildersOf(Component(BuilderString(b),
                                             Complete(b, "ssh")
                                                \o <<E("boot_command", "boot.command")>>,
                                             A),
                                   FALSE, <<>>),
                        ids, "ubuntu"),
               IF own
               THEN [Env("up", FullFS \cup {KindBootFile(b)})
                        EXCEPT !.lines = Put(@, KindBootFile(b), KindBootLines)]
               ELSE Env("up", FullFS))

SpecBoot == InitBoot /\ [][Next]_vars

\* The builders that take their guest_os_type from the ISO discovery.
OSTypeKinds == {VirtualBoxISO, VMWareISO}

\* What a component says about its guest_os_type: nothing, the unset
\* marker, or a value of its own.
OSTypeExtras ==
    {<<>>, <<E("guest_os_type", "")>>, <<E("guest_os_type", "custom")>>,
     <<E("guest_os_type", ":name")>>}

\* Templates with two ISO builders, of the same kind or of different kinds,
\* synthesized in either order or one alone, with or without a common
\* sibling that gives a guest_os_type.
InitOSType ==
    \E k1 \in OSTypeKinds, k2 \in OSTypeKinds, g1 \in OSTypeExtras, g2 \in OSTypeExtras,
       withCommon \in BOOLEAN, distro \in SupportedDistros,
       ids \in {<<"b1">>, <<"b1", "b2">>, <<"b2", "b1">>} :
       Started(Template(Put(BuildersOf(Component(BuilderString(k1),
                                                 Complete(k1, "ssh") \o g1, NoArrays),
                                       withCommon, <<E("guest_os_type", "fromcommon")>>),
                            "b2",
                            Component(BuilderString(k2), Complete(k2, "ssh") \o g2,
                                      NoArrays)),
                        ids, distro),
               Env("up", FullFS))

SpecOSType == InitOSType /\ [][Next]_vars

----------------------------------------------------------------------------
\* Properties.  hist[i] records the i-th loop iteration of createBuilders:
\* the ID, whether the component was found, its kind, the template before
\* the iteration (r0) and the create function's result (res).

Iterations == {hist[i] : i \in 1..Len(hist)}

Succeeded(h) == h.found /\ h.res.err = NoErr

HasArray(h, name) == name \in DOMAIN h.r0.Builders[h.ID].Arrays

\* The result of the same iteration when the component's settings are
\* followed by the entries of extra.
WithSettings(h, extra) ==
    create(h.typ, [h.r0 EXCEPT !.Builders[h.ID].Settings = @ \o extra], env, h.ID)

\* C1 as stated: every ISO-consuming builder (parallels-iso, qemu,
\* virtualbox-iso, vmware-iso) that is synthesized successfully contains
\* iso_url or iso_urls, and iso_checksum, and iso_checksum_type.
C1_AsStated ==
    \A h \in Iterations :
       Succeeded(h) /\ h.typ \in ISOKinds =>
          /\ Has(h.res.settings, "iso_url") \/ Has(h.res.settings, "iso_urls")
          /\ Has(h.res.settings, "iso_checksum")
          /\ Has(h.res.settings, "iso_checksum_type")

\* C1, amended: every ISO-consuming builder that is synthesized successfully
\* contains iso_url or iso_urls, and iso_checksum_type, and iso_checksum;
\* a parallels-iso may carry iso_checksum_url in place of iso_checksum.
C1_ISOSettingsPresent ==
    \A h \in Iterations :
       Succeeded(h) /\ h.typ \in ISOKinds =>
          /\ Has(h.res.settings, "iso_url") \/ Has(h.res.settings, "iso_urls")
          /\ \/ Has(h.res.settings, "iso_checksum")
             \/ h.typ = ParallelsISO /\ Has(h.res.settings, "iso_checksum_url")
          /\ Has(h.res.settings, "iso_checksum_type")

\* A parallels-iso synthesized with iso_checksum_url and no iso_checksum.
C1_Witness ==
    /\ pc = "done"
    /\ err = NoErr
    /\ \E h \in Iterations :
          /\ Succeeded(h) /\ h.typ = ParallelsISO
          /\ Has(h.res.settings, "iso_checksum_url")
          /\ ~Has(h.res.settings, "iso_checksum")
          /\ bldrs[1] = h.res.settings

\* The required ISO settings a missing-required error may name.
ISOSettingNames == {"iso_url", "iso_checksum", "iso_checksum_type"}

\* C2 as stated: for qemu, virtualbox-iso and vmware-iso, when the merged
\* settings hold no iso_url and the arrays no iso_urls, synthesis does not
\* fail with missing-required for an ISO setting, and a synthesized builder
\* has the iso_url, iso_checksum and iso_checksum_type of the template's
\* ISO discovery.
C2_DiscoveryWhenNoISOURL ==
    \A h \in Iterations :
       (/\ h.found
        /\ h.typ \in {QEMU, VirtualBoxISO, VMWareISO}
        /\ "iso_url" \notin Keys(h.res.work)
        /\ ~HasArray(h, "iso_urls")) =>
          /\ ~(/\ Cause(h.res.err).typ = "RequiredSettingErr"
               /\ Cause(h.res.err).Key \in ISOSettingNames)
          /\ Succeeded(h) =>
                /\ h.res.r.OSType # ""
                /\ h.res.settings["iso_url"] = StrVal(imageURL(h.res.r.ReleaseISO))
                /\ h.res.settings["iso_checksum"] = StrVal(h.res.r.ReleaseISO.Checksum)
                /\ h.res.settings["iso_checksum_type"]
                      = StrVal(h.res.r.ReleaseISO.ChecksumType)

\* An iteration over a virtualbox-iso, vmware-iso or qemu component whose
\* merged settings hold iso_url but no iso_checksum.
NoChecksum(h) ==
    /\ h.found
    /\ h.typ \in {VirtualBoxISO, VMWareISO, QEMU}
    /\ "iso_url" \in Keys(h.res.work)
    /\ "iso_checksum" \notin Keys(h.res.work)

\* C3 as stated: for virtualbox-iso, vmware-iso and qemu, when the merged
\* settings hold iso_url but no iso_checksum, synthesis fails with a
\* missing-required error naming iso_checksum and returns no builder object.
C3_AsStated ==
    \A h \in Iterations :
       NoChecksum(h) =>
          /\ Cause(h.res.err) = RequiredSettingErr("iso_checksum")
          /\ h.res.settings = NoBuilder
          /\ bldrs = <<>>

\* The kind createBuilders parses for the i-th ID of the template.
KindOf(i) == ParseBuilder(r.Builders[r.BuilderIDs[i]].Type)

Returned == pc = "done" /\ err = NoErr

\* C4: whenever createBuilders succeeds, every returned builder object has
\* a type entry equal to the canonical string of the kind parsed from its
\* component's Type.
C4_TypeIsCanonicalKind ==
    Returned =>
       \A i \in 1..Len(bldrs) :
          /\ Has(bldrs[i], "type")
          /\ bldrs[i]["type"] = StrVal(BuilderString(KindOf(i)))
          /\ KindOf(i) \in Kinds

\* createBuilders returned two builders of different kinds, one of them a
\* component whose Type is written in mixed case.
C4_Witness ==
    /\ Returned
    /\ Len(bldrs) = 2
    /\ r.Builders[r.BuilderIDs[1]].Type = "VirtualBox-ISO"
    /\ bldrs[1]["type"] = StrVal("virtualbox-iso")
    /\ bldrs[2]["type"] = StrVal("digitalocean")

\* C5: on success createBuilders returns exactly one builder object per
\* entry of BuilderIDs, in the same order: the i-th object is the synthesis
\* of the component named by the i-th ID.
C5_OnePerIDInOrder ==
    Returned =>
       /\ Len(bldrs) = Len(r.BuilderIDs)
       /\ Len(hist) = Len(r.BuilderIDs)
       /\ \A i \in 1..Len(r.BuilderIDs) :
             /\ hist[i].ID = r.BuilderIDs[i]
             /\ bldrs[i] = create(KindOf(i), hist[i].r0, env, r.BuilderIDs[i]).settings
             /\ bldrs[i] # NoBuilder

\* createBuilders returned the builders of two different components, the
\* second listed first in the template's components.
C5_Witness ==
    /\ Returned
    /\ r.BuilderIDs = <<"b2", "b1">>
    /\ KindOf(2) = VMWareVMX
    /\ bldrs[1]["type"] = StrVal("digitalocean")
    /\ bldrs[2]["type"] = StrVal("vmware-vmx")
    /\ bldrs[1] # bldrs[2]

\* C6: when the loop of createBuilders reaches an ID with no entry in
\* r.Builders (in particular when the map is empty), createBuilders fails
\* with the not-found error carrying that ID and returns no builders; a
\* template listing such an ID never returns builders.
C6_MissingComponent ==
    /\ \A i \in 1..Len(hist) :
          ~hist[i].found =>
             /\ hist[i].ID \notin DOMAIN r.Builders
             /\ i = Len(hist)
             /\ pc = "done"
             /\ err = BuilderErr(hist[i].ID, UnsupportedBuilder, ErrBuilderNotFound)
             /\ bldrs = <<>>
    /\ pc = "done" =>
          \A i \in 1..Len(r.BuilderIDs) :
             r.BuilderIDs[i] \notin DOMAIN r.Builders =>
                /\ err # NoErr
                /\ bldrs = <<>>
                /\ Len(hist) >= i => ~hist[i].found

\* createBuilders reached a missing ID after synthesizing a builder, and
\* the template's map of builders is not empty.
C6_Witness ==
    /\ pc = "done"
    /\ r.BuilderIDs = <<"b2", "missing">>
    /\ Len(hist) = 2
    /\ Succeeded(hist[1])
    /\ err = BuilderErr("missing", UnsupportedBuilder, ErrBuilderNotFound)
    /\ bldrs = <<>>

\* C7: createBuilders never returns a builder object synthesized from a
\* component whose kind is common: reaching one fails, and the settings of
\* common only take part in the work lists of the other builders.
C7_CommonNeverEmitted ==
    /\ \A i \in 1..Len(hist) :
          hist[i].found /\ hist[i].typ = Common =>
             /\ hist[i].res.settings = NoBuilder
             /\ hist[i].res.err
                   = InvalidComponentErr("builder", r.Builders[hist[i].ID].Type)
             /\ pc = "done" /\ bldrs = <<>> /\ err = hist[i].res.err
    /\ Returned => \A i \in 1..Len(bldrs) : KindOf(i) # Common
    /\ \A i \in 1..Len(bldrs) : bldrs[i] # NoBuilder => bldrs[i]["type"] # StrVal("common")

\* createBuilders reached the ID common, whose component is of kind common,
\* after it had synthesized a builder with common's settings merged in.
C7_Witness ==
    /\ pc = "done"
    /\ r.BuilderIDs = <<"b1", "common">>
    /\ Len(hist) = 2
    /\ Succeeded(hist[1])
    /\ "boot_wait" \notin Keys(hist[1].r0.Builders["b1"].Settings)
    /\ Has(hist[1].res.settings, "boot_wait")
    /\ hist[1].res.settings["boot_wait"] = StrVal("5s")
    /\ hist[2].typ = Common
    /\ bldrs = <<>>
    /\ err = InvalidComponentErr("builder", "common")

\* The settings of the common sibling and of the component of an iteration.
CommonOf(h) == h.r0.Builders[BuilderString(Common)].Settings

OwnOf(h) == h.r0.Builders[h.ID].Settings

Merging(h) ==
    h.found /\ h.typ \in Kinds /\ BuilderString(Common) \in DOMAIN h.r0.Builders

Unset(sl, k) == k \in Keys(sl) /\ Lookup(sl, k) = ""

\* C8 as stated: the work list of a builder with a common sibling associates
\* every key with the component's value when the component has the key,
\* otherwise with common's value when common has it, and has no entry for a
\* key neither has.
C8_AsStated ==
    \A h \in Iterations :
       Merging(h) =>
          \A k \in Keys(CommonOf(h)) \cup Keys(OwnOf(h)) \cup Keys(h.res.work) :
             IF k \in Keys(OwnOf(h))
             THEN k \in Keys(h.res.work) /\ Lookup(h.res.work, k) = Lookup(OwnOf(h), k)
             ELSE /\ k \in Keys(CommonOf(h))
                  /\ k \in Keys(h.res.work)
                  /\ Lookup(h.res.work, k) = Lookup(CommonOf(h), k)

\* C8, amended: the work list of a builder with a common sibling is the
\* merge of common's settings A with the component's settings B: a key B
\* gives a value has B's value, a key B gives without a value has no entry
\* unless it is guest_os_type, a key only A has keeps A's value, and no
\* other key has an entry.
C8_MergeAssociation ==
    \A h \in Iterations :
       Merging(h) =>
          \A k \in Keys(CommonOf(h)) \cup Keys(OwnOf(h)) \cup Keys(h.res.work) :
             IF Unset(OwnOf(h), k) /\ k # "guest_os_type"
             THEN k \notin Keys(h.res.work)
             ELSE IF k \in Keys(OwnOf(h))
             THEN /\ k \in Keys(h.res.work)
                  /\ Lookup(h.res.work, k) = Lookup(OwnOf(h), k)
                  /\ Cardinality({i \in 1..Len(h.res.work) : h.res.work[i].k = k}) = 1
             ELSE /\ k \in Keys(CommonOf(h))
                  /\ k \in Keys(h.res.work)
                  /\ Lookup(h.res.work, k) = Lookup(CommonOf(h), k)

\* A builder was synthesized from a work list in which the component's
\* unset marker removed common's k1 and common's k2 was kept.
C8_Witness ==
    \E h \in Iterations :
       /\ Merging(h) /\ Succeeded(h)
       /\ CommonOf(h) = <<E("k1", "a"), E("k2", "c")>>
       /\ Unset(OwnOf(h), "k1")
       /\ "k1" \notin Keys(h.res.work)
       /\ Lookup(h.res.work, "k2") = "c"

\* The merged settings hold no entry for an ordinary key that new gives
\* without a value, and a valueless guest_os_type when new gives that.
UnsetApplied(new, merged) ==
    \A i \in 1..Len(new) :
       new[i].v = "" =>
          IF new[i].k = "guest_os_type"
          THEN \E j \in 1..Len(merged) : merged[j] = E("guest_os_type", "")
          ELSE new[i].k \notin Keys(merged)

\* C9: in a settings merge of old with new, a key that new gives without a
\* value is removed from the result, except guest_os_type, whose valueless
\* entry is kept: in the settings updateBuilders merges for a component of
\* both maps, and in the work list merged from common and a component.
C9_UnsetMarkers ==
    /\ \A v \in (DOMAIN upd.old) \cap (DOMAIN upd.new) :
          UnsetApplied(upd.new[v].Settings, r.Builders[v].Settings)
    /\ \A h \in Iterations : Merging(h) => UnsetApplied(OwnOf(h), h.res.work)

\* updateBuilders merged new settings with the markers k1= and
\* guest_os_type= into a component that had values for both.
C9_Witness ==
    /\ pc = "updated"
    /\ "b1" \in (DOMAIN upd.old) \cap (DOMAIN upd.new)
    /\ \E i \in 1..Len(upd.old["b1"].Settings) : upd.old["b1"].Settings[i] = E("k1", "b")
    /\ \E i \in 1..Len(upd.old["b1"].Settings) :
          upd.old["b1"].Settings[i] = E("guest_os_type", "custom")
    /\ "k1" \notin Keys(r.Builders["b1"].Settings)
    /\ Lookup(r.Builders["b1"].Settings, "guest_os_type") = ""
    /\ Lookup(r.Builders["b1"].Settings, "k2") = "new"

\* The kinds whose required username is the communicator's, and its key.
UsernameKinds ==
    {AmazonEBS, AmazonInstance, ParallelsISO, ParallelsPVM, QEMU, VirtualBoxISO,
     VirtualBoxOVF, VMWareISO, VMWareVMX}

UsernameKey(prefix) == IF prefix = "" THEN "ssh_username" ELSE prefix \o "_username"

\* C10 as stated: when the username is all a builder misses, synthesis
\* fails with missing-required naming ssh_username when no communicator is
\* selected and <prefix>_username when the prefix is ssh or winrm.
C10_UsernameKeyNamed ==
    \A h \in Iterations :
       (/\ h.found
        /\ h.typ \in UsernameKinds
        /\ UsernameKey(h.res.prefix) \notin Keys(h.res.work)
        /\ WithSettings(h, <<E(UsernameKey(h.res.prefix), "vagrant")>>).err = NoErr) =>
          h.res.err = BuilderErr(h.ID, h.typ, RequiredSettingErr(UsernameKey(h.res.prefix)))

----------------------------------------------------------------------------
\* Integer keys.

\* The entries of the work list of h whose key is an integer key of its
\* kind; the ssh_host_port keys do not apply under the winrm communicator.
IntEntries(h) ==
    {i \in 1..Len(h.res.work) :
        /\ h.res.work[i].k \in IntKeys(h.typ)
        /\ ~(h.res.prefix = "winrm"
              /\ h.res.work[i].k \in {"ssh_host_port_max", "ssh_host_port_min"})}

\* TRUE when e, bare or wrapped, is a setting error of key k.
IsSettingErrOf(e, k) == Cause(e).typ = "SettingErr" /\ Cause(e).Key = k

\* C11: for every integer-typed key of every builder kind, a value that
\* parses as an integer is emitted as an integer and synthesis continues
\* past the key; synthesis fails with an invalid-int error carrying key and
\* value only when the value does not parse.
C11_IntegerKeys ==
    \A h \in Iterations :
       h.found /\ h.typ \in Kinds =>
          \A i \in IntEntries(h) :
             IF Atoi(h.res.work[i].v).ok
             THEN /\ ~IsSettingErrOf(h.res.err, h.res.work[i].k)
                  /\ h.res.err = NoErr =>
                        /\ Has(h.res.settings, h.res.work[i].k)
                        /\ h.res.settings[h.res.work[i].k] = IntVal(Atoi(h.res.work[i].v).i)
             ELSE /\ h.res.err # NoErr
                  /\ IsSettingErrOf(h.res.err, h.res.work[i].k) =>
                        h.res.err = BuilderErr(h.ID, h.typ,
                                               SettingErr(h.res.work[i].k, h.res.work[i].v,
                                                          PlainErr("strconv.Atoi")))

----------------------------------------------------------------------------
\* Error wrapping.

\* C12: every error a builder synthesizer returns is wrapped with the
\* component identifier and the builder kind: no synthesizer returns a bare
\* required-setting, setting or resolver error.
C12_ErrorsWrapped ==
    \A h \in Iterations :
       h.found /\ h.typ \in Kinds /\ h.res.err # NoErr =>
          /\ h.res.err.typ = "BuilderErr"
          /\ h.res.err.id = h.ID
          /\ h.res.err.Builder = h.typ

\* The settings whose value is the path of a source to copy.
SourcePathKeys == {"user_data_file", "source_path", "http_directory"}

\* The destinations the template has scheduled, files and directories.
Ledger(t) == (DOMAIN t.Files) \cup (DOMAIN t.Dirs)

\* C13: outside example mode, for every emitted user_data_file, source_path
\* and http_directory the file or directory ledger holds the destination
\* that is the template output directory joined with the emitted path.
C13_LedgerHoldsEmittedPath ==
    \A h \in Iterations :
       Succeeded(h) /\ ~h.r0.IsExample =>
          \A k \in SourcePathKeys \cap DOMAIN h.res.settings :
             <<h.res.r.TemplateOutputDir>> \o h.res.settings[k].v \in Ledger(h.res.r)

\* C14: a destination is bound to at most one source: no iteration replaces
\* the source of a destination that was already in the file or directory
\* ledger.
C14_DestinationBoundOnce ==
    \A h \in Iterations :
       h.found =>
          /\ \A d \in DOMAIN h.r0.Files : h.res.r.Files[d] = h.r0.Files[d]
          /\ \A d \in DOMAIN h.r0.Dirs : h.res.r.Dirs[d] = h.r0.Dirs[d]

\* C15: in example mode, synthesizing a builder adds no entry to the file
\* ledger and none to the directory ledger.
C15_ExampleSchedulesNothing ==
    \A h \in Iterations :
       h.found /\ h.r0.IsExample =>
          /\ h.res.r.Files = h.r0.Files
          /\ h.res.r.Dirs = h.r0.Dirs

\* The eleven layers of the search with the release and the component in
\* their given form only.
ElevenLayers(rr, path, component) ==
    LET s == <<rr.SourceDir>>
        d == Seg(rr.Distro)
        rl == Seg(rr.Release)
        a == Seg(rr.Arch)
        b == Seg(rr.BuildName)
        c == Seg(component)
    IN << s \o d \o rl \o b \o path,
          s \o d \o rl \o c \o path,
          s \o d \o rl \o a \o path,
          s \o d \o rl \o path,
          s \o d \o a \o path,
          s \o d \o b \o path,
          s \o d \o c \o path,
          s \o d \o path,
          s \o c \o path,
          s \o b \o path,
          s \o path >>

\* The paths, components and expectations findSource is asked for.
FindPaths == {"", "user.data", "http"}

FindComponents == {"", "amazon-ebs", "qemu"}

\* res is the first of cands that exists in fs, or not-found when none does.
IsFirstExisting(res, cands, fs, tail) ==
    IF \E i \in 1..Len(cands) : cands[i] \in fs
    THEN \E i \in 1..Len(cands) :
            /\ cands[i] \in fs
            /\ \A j \in 1..(i - 1) : cands[j] \notin fs
            /\ res = [src |-> cands[i] \o tail, err |-> NoErr]
    ELSE res = [src |-> <<>>, err |-> PlainErr("file does not exist")]

\* C16 as stated: outside example mode findSource returns the first existing
\* candidate of the eleven fixed layers and fails with not-found when none of
\* them exists; an empty path fails with empty-path in both modes.
C16_AsStated ==
    \A p \in FindPaths, c \in FindComponents, isDir \in BOOLEAN :
       /\ p = "" => findSource(r, env, p, c, isDir).err = PlainErr("find source: empty path")
       /\ p # "" /\ ~r.IsExample =>
             IsFirstExisting(findSource(r, env, p, c, isDir), ElevenLayers(r, Seg(p), c),
                             env.fs, IF isDir THEN <<"/">> ELSE <<>>)

\* The members of a sequence.
Members(seq) == {seq[k] : k \in 1..Len(seq)}

\* The eleven layers with the i-th form of the release and the j-th form of
\* the component.
LayersOfForm(rr, path, component, i, j) ==
    ElevenLayers([rr EXCEPT !.Release = ReleaseForms(rr.Release)[i]], path,
                 ComponentForms(component)[j])

\* The candidates of the eleven layers in every form of the release and of
\* the component.
AnyForm(rr, path, component) ==
    UNION {Members(LayersOfForm(rr, path, component, i, j)) :
              i \in 1..Len(ReleaseForms(rr.Release)),
              j \in 1..Len(ComponentForms(component))}

\* src is a candidate of layers and none of the layers before its first
\* mention in layers exists.
NoEarlierLayer(src, layers, fs, tail) ==
    (\E k \in 1..Len(layers) : src = layers[k] \o tail)
    => \E k \in 1..Len(layers) :
          /\ src = layers[k] \o tail
          /\ \A j \in 1..(k - 1) : layers[j] \notin fs

\* src is not a candidate of the component layers of stripped while the
\* same candidate of full exists.
NoFuller(src, stripped, full, fs, tail) ==
    \A k \in {2, 7, 9} : src = stripped[k] \o tail => full[k] \notin fs

\* src is not a candidate made with a stripped form of the component while
\* the same candidate made with the given form exists.
NoFullerForm(src, rr, path, component, fs, tail) ==
    \A i \in 1..Len(ReleaseForms(rr.Release)),
       j \in 2..Len(ComponentForms(component)) :
       NoFuller(src, LayersOfForm(rr, path, component, i, j),
                LayersOfForm(rr, path, component, i, 1), fs, tail)

\* res is what the layered search may return: not-found exactly when no
\* candidate of any form exists, and otherwise an existing candidate that no
\* existing candidate of an earlier layer of the same form of the release
\* comes before.
FoundAsLayered(res, rr, path, component, fs, tail) ==
    IF \A x \in AnyForm(rr, path, component) : x \notin fs
    THEN res = [src |-> <<>>, err |-> PlainErr("file does not exist")]
    ELSE /\ res.err = NoErr
         /\ \E x \in AnyForm(rr, path, component) : x \in fs /\ res.src = x \o tail
         /\ \A i \in 1..Len(ReleaseForms(rr.Release)) :
               NoEarlierLayer(res.src, LayersOfForm(rr, path, component, i, 1), fs, tail)
         /\ NoFullerForm(res.src, rr, path, component, fs, tail)

\* The template of TestFindSource and TestFindCommandFile.
TestTemplate ==
    [Template(EmptyMap, <<>>, "ubuntu")
        EXCEPT !.Arch = "amd64", !.Release = "14.04", !.Image = "server",
               !.SourceDir = "src", !.BuildName = "ubuntu_build"]

\* The files and directories the two tests find under the source directory.
TestTree ==
    {<<"src", "ubuntu", "http", "preseed.cfg">>,
     <<"src", "chef-solo", "cookbook1">>,
     <<"src", "ubuntu", "14.04", "ubuntu_build", "14.04_ubuntu_build.txt">>,
     <<"src", "ubuntu", "1404", "ubuntu_build", "1404_ubuntu_build.txt">>,
     <<"src", "ubuntu", "14", "ubuntu_build", "14_ubuntu_build.txt">>,
     <<"src", "ubuntu", "ubuntu_build", "ubuntu_build_text.txt">>,
     <<"src", "ubuntu_build", "ubuntu_build.txt">>,
     <<"src", "ubuntu", "14.04", "amd64", "14.04_amd64_build_text.txt">>,
     <<"src", "ubuntu", "1404", "amd64", "1404_amd64_build_text.txt">>,
     <<"src", "ubuntu", "14", "amd64", "14_amd64_build_text.txt">>,
     <<"src", "ubuntu", "14.04", "14.04_text.txt">>,
     <<"src", "ubuntu", "1404", "1404_text.txt">>,
     <<"src", "ubuntu", "14", "14_text.txt">>,
     <<"src", "ubuntu", "amd64", "amd64_text.txt">>,
     <<"src", "ubuntu", "ubuntu_text.txt">>,
     <<"src", "chef-solo", "chef.cfg">>,
     <<"src", "chef-client", "chef.cfg">>,
     <<"src", "chef", "chef.cfg">>,
     <<"src", "commands">>,
     <<"src", "commands", "execute.command">>,
     <<"src", "shell", "commands">>,
     <<"src", "shell", "commands", "execute_test.command">>,
     <<"src", "chef-solo", "commands">>,
     <<"src", "chef-solo", "commands", "execute.command">>,
     <<"src", "chef", "commands">>,
     <<"src", "chef", "commands", "chef.command">>,
     <<"src", "ubuntu", "commands">>,
     <<"src", "ubuntu", "commands", "ubuntu.command">>,
     <<"src", "ubuntu", "14", "commands">>,
     <<"src", "ubuntu", "14", "commands", "ubuntu-14.command">>}

\* A row of the two tests: the path asked for, the component, the directory
\* flag and the source expected, <<>> when the test expects not-found.
TestRow(path, component, isDir, src) ==
    [path |-> path, component |-> component, isDir |-> isDir, src |-> src]

TestRows ==
    {TestRow(<<"something">>, "", FALSE, <<>>),
     TestRow(<<"http", "preseed.cfg">>, "", FALSE,
             <<"src", "ubuntu", "http", "preseed.cfg">>),
     TestRow(<<"cookbook1">>, "chef-solo", TRUE, <<"src", "chef-solo", "cookbook1", "/">>),
     TestRow(<<"14.04_ubuntu_build.txt">>, "", FALSE,
             <<"src", "ubuntu", "14.04", "ubuntu_build", "14.04_ubuntu_build.txt">>),
     TestRow(<<"1404_ubuntu_build.txt">>, "", FALSE,
             <<"src", "ubuntu", "1404", "ubuntu_build", "1404_ubuntu_build.txt">>),
     TestRow(<<"14_ubuntu_build.txt">>, "", FALSE,
             <<"src", "ubuntu", "14", "ubuntu_build", "14_ubuntu_build.txt">>),
     TestRow(<<"ubuntu_build_text.txt">>, "", FALSE,
             <<"src", "ubuntu", "ubuntu_build", "ubuntu_build_text.txt">>),
     TestRow(<<"ubuntu_build.txt">>, "", FALSE, <<"src", "ubuntu_build", "ubuntu_build.txt">>),
     TestRow(<<"14.04_amd64_build_text.txt">>, "", FALSE,
             <<"src", "ubuntu", "14.04", "amd64", "14.04_amd64_build_text.txt">>),
     TestRow(<<"1404_amd64_build_text.txt">>, "", FALSE,
             <<"src", "ubuntu", "1404", "amd64", "1404_amd64_build_text.txt">>),
     TestRow(<<"14_amd64_build_text.txt">>, "", FALSE,
             <<"src", "ubuntu", "14", "amd64", "14_amd64_build_text.txt">>),
     TestRow(<<"14.04_text.txt">>, "", FALSE, <<"src", "ubuntu", "14.04", "14.04_text.txt">>),
     TestRow(<<"1404_text.txt">>, "", FALSE, <<"src", "ubuntu", "1404", "1404_text.txt">>),
     TestRow(<<"14_text.txt">>, "", FALSE, <<"src", "ubuntu", "14", "14_text.txt">>),
     TestRow(<<"amd64_text.txt">>, "", FALSE, <<"src", "ubuntu", "amd64", "amd64_text.txt">>),
     TestRow(<<"ubuntu_text.txt">>, "", FALSE, <<"src", "ubuntu", "ubuntu_text.txt">>),
     TestRow(<<"chef.cfg">>, "", FALSE, <<>>),
     TestRow(<<"minion">>, "salt", FALSE, <<>>),
     TestRow(<<"master">>, "salt-masterless", FALSE, <<>>),
     TestRow(<<"chef.cfg">>, "chef-solo", FALSE, <<"src", "chef-solo", "chef.cfg">>),
     TestRow(<<"chef.cfg">>, "chef-client", FALSE, <<"src", "chef-client", "chef.cfg">>),
     TestRow(<<"chef.cfg">>, "chef", FALSE, <<"src", "chef", "chef.cfg">>),
     TestRow(<<"commands">>, "shell", TRUE, <<"src", "ubuntu", "14", "commands", "/">>),
     TestRow(<<"commands", "test.command">>, "", FALSE, <<>>),
     TestRow(<<"commands", "execute.command">>, "", FALSE,
             <<"src", "commands", "execute.command">>),
     TestRow(<<"commands", "execute_test.command">>, "shell", FALSE,
             <<"src", "shell", "commands", "execute_test.command">>),
     TestRow(<<"commands", "execute.command">>, "chef-solo", FALSE,
             <<"src", "chef-solo", "commands", "execute.command">>),
     TestRow(<<"commands", "chef.command">>, "chef-solo", FALSE,
             <<"src", "chef", "commands", "chef.command">>),
     TestRow(<<"commands", "ubuntu.command">>, "shell", FALSE,
             <<"src", "ubuntu", "commands", "ubuntu.command">>),
     TestRow(<<"commands", "ubuntu-14.command">>, "shell", FALSE,
             <<"src", "ubuntu", "14", "commands", "ubuntu-14.command">>)}

\* What a test row expects of findSource.
TestExpected(row) ==
    IF row.src = <<>> THEN [src |-> <<>>, err |-> PlainErr("file does not exist")]
    ELSE [src |-> row.src, err |-> NoErr]

\* C16: an empty path fails with empty-path in both modes.  Outside example
\* mode findSource fails with not-found exactly when no candidate of the
\* eleven layers exists in any form of the release (given, without dots,
\* major part) and of the component (given, part before the dash), and
\* otherwise returns an existing one of these candidates: when it is a
\* candidate of the eleven layers made with one form of the release and the
\* given component, no candidate of an earlier of these layers exists, and
\* when it is made with the stripped component, the same candidate with the
\* given component does not exist.  The rows of TestFindSource and
\* TestFindCommandFile are found as the tests expect whichever of the
\* earliest candidates the search meets first, and the user data file of a
\* synthesized amazon-ebs builder is scheduled from such a candidate.
\* findSource reads the source directory, distro, release, architecture,
\* build name and example flag of the template and the file system, none of
\* which an action changes, so its calls are made on every template and
\* file system as constructed; the synthesized builders are followed through
\* every state.
C16_FirstExistingCandidate ==
    /\ pc = "ready" =>
       \A p \in FindPaths, c \in FindComponents, isDir \in BOOLEAN :
          /\ p = "" => findSource(r, env, p, c, isDir).err = PlainErr("find source: empty path")
          /\ p # "" /\ ~r.IsExample =>
                FoundAsLayered(findSource(r, env, p, c, isDir), r, Seg(p), c,
                               env.fs, IF isDir THEN <<"/">> ELSE <<>>)
    /\ pc = "ready" =>
       \A row \in TestRows :
          findSourcePath(TestTemplate, [env EXCEPT !.fs = TestTree], row.path,
                         row.component, row.isDir) = TestExpected(row)
    /\ \A h \in Iterations :
          h.found /\ h.typ = AmazonEBS /\ ~h.r0.IsExample =>
             /\ h.res.err = NoErr =>
                   FoundAsLayered([src |-> h.res.r.Files[buildOutPath(h.r0, "amazon-ebs", "user.data")],
                                   err |-> NoErr],
                                  h.r0, <<"user.data">>, "amazon-ebs", env.fs, <<>>)
             /\ IsSettingErrOf(h.res.err, "user_data_file") =>
                   FoundAsLayered([src |-> <<>>, err |-> h.res.err.Err.Err],
                                  h.r0, <<"user.data">>, "amazon-ebs", env.fs, <<>>)

\* A user data file found under the major part of the release although the
\* source directory itself holds one as well.
C16_Witness ==
    \E h \in Iterations :
       /\ Succeeded(h) /\ h.typ = AmazonEBS /\ ~h.r0.IsExample
       /\ <<"src", "user.data">> \in env.fs
       /\ h.res.r.Files[<<"out", "amazon-ebs", "user.data">>] = <<"src", "ubuntu", "14", "user.data">>

\* The release object ISO discovery starts from in the current template.
CurrentRelease == NewRelease(r, WorkSlice(r, "b1"))

MissingInputErrs == {PlainErr("arch was empty"), PlainErr("release was empty")}

\* C17: for every ISO variant SetISOInfo fails with a missing-input error
\* when the architecture or the release is empty, and does so before any
\* network fetch: with the network up or down alike, the release object
\* untouched.
C17_MissingInputChecked ==
    r.Distro \in SupportedDistros
       /\ (CurrentRelease.Arch = "" \/ CurrentRelease.Release = "") =>
          \A net \in {"up", "down"} :
             /\ SetISOInfo(CurrentRelease, [env EXCEPT !.net = net]).err \in MissingInputErrs
             /\ SetISOInfo(CurrentRelease, [env EXCEPT !.net = net]).rel = CurrentRelease

\* The failures of fetching and reading the pages of ISO discovery.
DiscoveryErrs ==
    {NetErr, PlainErr("page to parse was empty"), PlainErr("unable to find ISO information"),
     PlainErr("unable to determine the current debian version"),
     PlainErr("the version string is less than the expected 5 chars"),
     PlainErr("no valid iso URLs were found"),
     PlainErr("unable to find the checksum"),
     PlainErr("unable to parse release information"),
     Panic("index out of range"), Panic("invalid argument to Intn"),
     Panic("slice bounds out of range")}

\* C18: a failure of ISO discovery is returned as an error value and leaves
\* the release object's release, full release, image name, URL and checksum
\* and the template's file and directory ledgers as they were.
C18_FailureLeavesNoPartialState ==
    /\ r.Distro \in SupportedDistros
       /\ SetISOInfo(CurrentRelease, env).err \in DiscoveryErrs =>
          /\ SetISOInfo(CurrentRelease, env).err.typ # "panic"
          /\ \A f \in {"Release", "ReleaseFull", "Name", "isoURL", "Checksum"} :
                SetISOInfo(CurrentRelease, env).rel[f] = CurrentRelease[f]
    /\ \A h \in Iterations :
          h.found /\ Cause(h.res.err) \in DiscoveryErrs =>
             /\ h.res.r.Files = h.r0.Files
             /\ h.res.r.Dirs = h.r0.Dirs

\* C19: for centos with an empty base URL every href of the redirect page,
\* the last one included, can be the mirror chosen, and a page with a single
\* href yields that href.
C19_EveryMirrorSelectable ==
    r.Distro = "centos" /\ r.BaseURL = "" /\ env.net = "up" =>
       \A i \in 1..Len(MirrorURLs(env)) :
          \E p \in 0..(MaxMirrors - 1) :
             randomISOURL(centosNamed(CurrentRelease, env), [env EXCEPT !.pick = p])
                = [url |-> <<MirrorURLs(env)[i]>> \o centosNamed(CurrentRelease, env).Name,
                   err |-> NoErr]

\* The lines of the shutdown command file.
ShutdownLines == env.lines[<<"src", "commands", "shutdown.command">>]

\* The bodies of the first k lines, joined.
Bodies(lines, k) ==
    LET NonEmpty(x) == x # "" IN SelectSeq([i \in 1..k |-> lines[i].body], NonEmpty)

\* The position of the first line without a trailing backslash, or the
\* number of lines when every line has one.
CommandEnd(lines) ==
    IF \A i \in 1..Len(lines) : lines[i].cont THEN Len(lines)
    ELSE CHOOSE k \in 1..Len(lines) :
            ~lines[k].cont /\ \A j \in 1..(k - 1) : lines[j].cont

\* Whether the shutdown command of iteration h failed for want of commands.
NoCommands(h) ==
    Cause(h.res.err) = SettingErr("shutdown_command", "shutdown.command", ErrNoCommands)

\* C20 as stated: for a file of one or more lines that all end in a
\* backslash the command is the bodies joined, every backslash removed.
C20_AsStated ==
    Len(ShutdownLines) >= 1 /\ (\A i \in 1..Len(ShutdownLines) : ShutdownLines[i].cont) =>
       commandFromSlice(ShutdownLines) = Bodies(ShutdownLines, Len(ShutdownLines))

\* C20: for a command file of two or more lines the command is the joined
\* bodies of the lines up to the first one without a trailing backslash, of
\* all lines when every line has one, no backslash kept and later lines
\* ignored; a single line is the command as it is, its backslash kept; an
\* empty file, or lines joining to nothing, fail with ErrNoCommands.
C20_CommandFromSlice ==
    /\ Len(ShutdownLines) >= 2 =>
          commandFromSlice(ShutdownLines) = Bodies(ShutdownLines, CommandEnd(ShutdownLines))
    /\ Len(ShutdownLines) = 1 =>
          commandFromSlice(ShutdownLines)
             = Bodies(ShutdownLines, 1) \o (IF ShutdownLines[1].cont THEN <<"\\">> ELSE <<>>)
    /\ Len(ShutdownLines) = 0 => commandFromSlice(ShutdownLines) = <<>>
    /\ \A h \in Iterations :
          h.found /\ h.typ \in CommandKinds =>
             /\ Succeeded(h) =>
                   h.res.settings["shutdown_command"] = StrVal(commandFromSlice(ShutdownLines))
             /\ commandFromSlice(ShutdownLines) = <<>> => NoCommands(h)
             /\ NoCommands(h) => commandFromSlice(ShutdownLines) = <<>>

\* A file of two lines that both end in a backslash gave the command of a
\* synthesized builder.
C20_Witness ==
    \E h \in Iterations :
       /\ Succeeded(h) /\ h.typ = VirtualBoxISO
       /\ ShutdownLines = <<[body |-> "halt", cont |-> TRUE], [body |-> "-p", cont |-> TRUE]>>
       /\ h.res.settings["shutdown_command"] = StrVal(<<"halt", "-p">>)

\* The key of a vboxmanage row: the entry's key behind two dashes, unless
\* it starts with two dashes already.
RowKey(k) == CASE k = "memory" -> "--memory"
               [] k = "cpus" -> "--cpus"
               [] k = "-vram" -> "---vram"
               [] OTHER -> k

\* The value of a vboxmanage row: the entry's value, a template variable
\* replaced by what it stands for.
RowValue(v) == IF v = ":name" THEN "feedlot" ELSE v

VBoxNames == {"vboxmanage", "vboxmanage_post"}

\* C21: createVBoxManage turns a list of n key=value entries into n rows in
\* the same order, row i being modifyvm, {{.Name}}, the i-th key behind two
\* dashes (none added to a key that has them) and the i-th value; the
\* builder emits these rows and the component's list stays as it was.
C21_VBoxManageRows ==
    /\ \A name \in VBoxNames :
          Has(r.Builders, "b1") /\ Has(r.Builders["b1"].Arrays, name) =>
             LET val == r.Builders["b1"].Arrays[name] IN
             /\ Len(createVBoxManage(r, val)) = Len(val.items)
             /\ \A i \in 1..Len(val.items) :
                   createVBoxManage(r, val)[i]
                      = <<"modifyvm", "{{.Name}}", RowKey(val.items[i].k),
                          RowValue(val.items[i].v)>>
    /\ \A h \in Iterations, name \in VBoxNames :
          Succeeded(h) /\ h.typ \in VBoxKinds /\ HasArray(h, name) =>
             /\ Has(h.res.settings, name)
             /\ h.res.settings[name].v
                   = [i \in 1..Len(h.r0.Builders[h.ID].Arrays[name].items) |->
                         <<"modifyvm", "{{.Name}}",
                           RowKey(h.r0.Builders[h.ID].Arrays[name].items[i].k),
                           RowValue(h.r0.Builders[h.ID].Arrays[name].items[i].v)>>]
             /\ h.res.r.Builders = h.r0.Builders

\* A builder was emitted from a list of two entries, the first without and
\* the second with the leading dashes.
C21_Witness ==
    \E h \in Iterations :
       /\ Succeeded(h) /\ h.typ = VirtualBoxISO /\ HasArray(h, "vboxmanage")
       /\ h.r0.Builders[h.ID].Arrays["vboxmanage"].items
             = <<E("memory", "4096"), E("--cpus", "")>>
       /\ h.res.settings["vboxmanage"].v
             = << <<"modifyvm", "{{.Name}}", "--memory", "4096">>,
                  <<"modifyvm", "{{.Name}}", "--cpus", "">> >>

\* The builds a run was asked for.
Requested ==
    {run.builds[i] : i \in 1..Len(run.builds)} \cup (IF run.distro THEN {DistroBuild} ELSE {})

\* C22: when a run of the build command whose arguments and distro
\* information were read has returned, every requested build was attempted,
\* whatever failed, and the status is nonzero exactly when a build failed.
C22_EveryBuildAttempted ==
    run.pc = "returned" /\ run.envOK /\ run.parseOK /\ run.infOK =>
       /\ Requested \subseteq run.attempted
       /\ run.status # 0 <=> Requested \cap run.fails # {}

\* C23: the settings a create function walks are common's settings merged
\* with the component's when the template has a common sibling, and the
\* component's own settings otherwise, for every kind and every ID.
C23_WorkSliceOfComponent ==
    \A h \in Iterations :
       h.found /\ h.typ \in Kinds =>
          h.res.work = IF BuilderString(Common) \in DOMAIN h.r0.Builders
                       THEN mergeSettingsSlices(CommonOf(h), OwnOf(h))
                       ELSE OwnOf(h)

\* C24: after updateBuilders(newB), which never fails, a builder only the
\* template had is as it was, a builder only newB has is in the template
\* as newB gives it, a builder of both has the template's settings merged
\* with newB's, and with an empty newB the builders are as they were.
C24_UpdateBuilders ==
    pc \in {"updated", "panic"} /\ hist = <<>> =>
       /\ upd.err = NoErr
       /\ DOMAIN r.Builders = (DOMAIN upd.old) \cup (DOMAIN upd.new)
       /\ \A v \in (DOMAIN upd.old) \ (DOMAIN upd.new) : r.Builders[v] = upd.old[v]
       /\ \A v \in (DOMAIN upd.new) \ (DOMAIN upd.old) : r.Builders[v] = upd.new[v]
       /\ \A v \in (DOMAIN upd.old) \cap (DOMAIN upd.new) :
             r.Builders[v].Settings
                = mergeSettingsSlices(upd.old[v].Settings, upd.new[v].Settings)
       /\ upd.new = EmptyMap => r.Builders = upd.old

\* The builders that resolve an http directory.
HTTPKinds == {QEMU, VirtualBoxISO, VirtualBoxOVF, VMWareISO, VMWareVMX}

\* C25: a create function resolves the http directory last, after the
\* arrays pass and ISO resolution: an iteration that fails returns no
\* builder object and has scheduled nothing in the directory ledger.
C25_HTTPResolvedLast ==
    \A h \in Iterations :
       h.found /\ h.typ \in HTTPKinds /\ h.res.err # NoErr =>
          /\ h.res.settings = EmptyMap
          /\ h.res.r.Dirs = h.r0.Dirs

\* The builders whose settings may hold http_directory.
HTTPExposing == HTTPKinds \cup {ParallelsISO}

\* The http directory the work list of h asks for, http when it names none.
HTTPValue(h) ==
    IF "http_directory" \in Keys(h.res.work)
    THEN replaceVariables(h.r0, Lookup(h.res.work, "http_directory"))
    ELSE "http"

\* C26: every synthesized builder that may hold http_directory emits it,
\* as the output-tree relative form of the value its settings give or of
\* http when they give none, and the directory ledger holds the source
\* findSource resolved for it under the output-tree destination.
C26_HTTPDirectory ==
    \A h \in Iterations :
       Succeeded(h) /\ h.typ \in HTTPExposing =>
          /\ Has(h.res.settings, "http_directory")
          /\ h.res.settings["http_directory"]
                = StrVal(buildTemplateResourcePath(h.r0, "", HTTPValue(h), FALSE))
          /\ Has(h.res.r.Dirs, buildOutPath(h.r0, "", HTTPValue(h)))
          /\ h.res.r.Dirs[buildOutPath(h.r0, "", HTTPValue(h))]
                = findSource(h.r0, env, HTTPValue(h), BuilderString(h.typ), TRUE).src

\* The values strconv.ParseBool reads as true.
TrueStrings == {"1", "t", "T", "TRUE", "true", "True"}

\* The boolean setting of iteration h's component, or none.
BoolKeyOf(h) ==
    {bk \in BoolSettings : bk[1] = h.typ /\ bk[2] \in Keys(h.res.work)}

\* C27 as stated: a boolean-typed setting is emitted as true when its value
\* is the lower-case string true and as false for every other value.
C27_AsStated ==
    \A h \in Iterations :
       Succeeded(h) =>
          \A bk \in BoolKeyOf(h) :
             h.res.settings[bk[2]] = BoolVal(Lookup(h.res.work, bk[2]) = "true")

\* C27: a boolean-typed setting is emitted as true when its value is one of
\* 1, t, T, TRUE, true, True and as false for every other value; no value
\* of a boolean setting is an error.
C27_BoolParsed ==
    /\ \A v \in BoolStrings : ParseBool(v) <=> v \in TrueStrings
    /\ \A h \in Iterations :
          \A bk \in BoolKeyOf(h) :
             /\ Succeeded(h) =>
                   h.res.settings[bk[2]]
                      = BoolVal(Lookup(h.res.work, bk[2]) \in TrueStrings)
             /\ ~IsSettingErrOf(h.res.err, bk[2])

\* A virtualbox-iso builder was emitted with headless true from the value
\* TRUE.
C27_Witness ==
    \E h \in Iterations :
       /\ Succeeded(h) /\ h.typ = VirtualBoxISO
       /\ "headless" \in Keys(h.res.work)
       /\ Lookup(h.res.work, "headless") = "TRUE"
       /\ h.res.settings["headless"] = BoolVal(TRUE)

\* The strings of CommandNames that end in .command.
EndsInDotCommand(s) == s \in {"boot.command", "empty.command", ".command", "a..command"}

\* C28: a value is a command-file reference exactly when it ends in
\* .command, and a builder emitted from any other value of
\* shutdown_command has that value as its command.
C28_CommandFileSuffix ==
    \A h \in Iterations :
       h.found /\ h.typ \in CommandKinds /\ "shutdown_command" \in Keys(h.res.work) =>
          /\ stringIsCommandFilename(Lookup(h.res.work, "shutdown_command"))
                <=> EndsInDotCommand(Lookup(h.res.work, "shutdown_command"))
          /\ Succeeded(h) /\ ~EndsInDotCommand(Lookup(h.res.work, "shutdown_command")) =>
                h.res.settings["shutdown_command"]
                   = StrVal(Lookup(h.res.work, "shutdown_command"))

BootFileOf(h) == commandsFromFile(h.r0, env, "boot.command", BuilderString(h.typ))

\* C29: a builder of one of the seven kinds whose boot_command setting names
\* a command file and whose component has no boot_command array emits the
\* lines of that file as its boot_command, whatever other arrays the
\* component has; with a boot_command array it emits the array.
C29_BootCommandFile ==
    \A h \in Iterations :
        (Succeeded(h) /\ h.typ \in BootKinds
            /\ \E i \in 1..Len(h.r0.Builders[h.ID].Settings) :
                  h.r0.Builders[h.ID].Settings[i] = E("boot_command", "boot.command"))
        => /\ "boot_command" \in DOMAIN h.res.settings
           /\ h.res.settings["boot_command"] =
                 IF HasArray(h, "boot_command")
                 THEN ArrVal(h.r0.Builders[h.ID].Arrays["boot_command"].items)
                 ELSE ArrVal(BootFileOf(h).cmds)

\* The guest_os_type the key walk of the create function sees: that of the
\* component's settings merged with the common sibling's, its variables
\* replaced (v = r.replaceVariables(v)) before guestOSType = v.
GivenOSType(h) ==
    IF "guest_os_type" \in Keys(WorkSlice(h.r0, h.ID))
    THEN replaceVariables(h.r0, Lookup(WorkSlice(h.r0, h.ID), "guest_os_type"))
    ELSE ""

OwnOSType(h) == getOSType(h.r0.Distro, h.r0.Arch, BuilderString(h.typ)).s

\* C30: every ISO builder synthesized without a guest_os_type of its own is
\* emitted with the OS-type string of its own kind for the template's distro
\* and arch, whichever builders were synthesized before it; a guest_os_type
\* the component gives is emitted unchanged.
C30_OwnOSType ==
    \A h \in Iterations :
        (Succeeded(h) /\ h.typ \in OSTypeKinds)
        => /\ "guest_os_type" \in DOMAIN h.res.settings
           /\ h.res.settings["guest_os_type"] =
                 StrVal(IF GivenOSType(h) = "" THEN OwnOSType(h) ELSE GivenOSType(h))

====
